---------------------------- MODULE Spec2Model ----------------------------
(***************************************************************************)
(* Verification model of the interactive transcript viewport core of the   *)
(* codex TUI (codex-rs/tui2).                                              *)
(*                                                                         *)
(* The module holds several state machines that share no state:            *)
(*   - the mouse scroll normaliser (tui/scrolling/mouse.rs),               *)
(*   - the commit-animation worker (app.rs),                               *)
(*   - the composer text area (bottom_pane/textarea.rs),                   *)
(*   - the transcript selection and its multi-click tracker                *)
(*     (transcript_selection.rs, transcript_multi_click.rs, app.rs).       *)
(* Each has its own next-state relation and specification; the variables   *)
(* of the other machines stay at their initial values.                     *)
(***************************************************************************)
EXTENDS Integers, Sequences, FiniteSets, TLC

VARIABLES
    \* ---- scroll normaliser (MouseScrollState, mouse.rs:333-338) ----
    config,            \* the ScrollConfig the app was built with (app.rs:471,509)
    stream,            \* Option<ScrollStream>: <<>> or <<record>>
    last_redraw_at,    \* Instant, kept as the age now - last_redraw_at
    carry_lines,       \* f32, kept as a rational <<num, den>>
    carry_direction,   \* Option<ScrollDirection>: "None", "Up", "Down"
    update,            \* the ScrollUpdate returned by the last handler
    call,              \* history: what the last handler call did
    fin,               \* history: the stream finalized last
    nstreams,          \* history: number of streams started so far
    seen,              \* history: events pushed into the current stream, up to
                       \* two past the clamp of event_count
    \* ---- commit animation (app.rs:1460-1478) ----
    commit_anim_running,  \* the AtomicBool
    workers,              \* worker thread id -> position in its loop
    channel,              \* CommitTick events queued on the app channel
    \* ---- text area (TextArea, textarea.rs:30-37) ----
    text, cursor_pos, wrap_cache, preferred_col, elements, kill_buffer,
    ta_state,          \* TextAreaState.scroll of the composer (textarea.rs:46-49)
    ta_call,           \* history: the last recorded text area call
    \* ---- transcript selection (app.rs:332-333) ----
    selection,         \* TranscriptSelection {anchor, head}
    tracker,           \* ClickTracker.last_click: Option<Click>
    clock,             \* the Instant that Instant::now() returns, in ms
    sel_call,          \* history: what the last mouse handler call did
    frame,             \* the highlight painted by the last draw
    \* ---- terminal (Terminal, custom_terminal.rs:103-124) ----
    terminal,          \* the Terminal with its backend
    draw_call,         \* history: what the last draw did
    \* ---- clipboard reconstruction (transcript_copy.rs) ----
    copy_in,           \* the rendered lines and the selection to copy
    copy_out,          \* what selection_to_copy_text returned for them
    \* ---- skills (core/src/skills) ----
    sk_disk,           \* the skill directories on the disk
    cache_by_cwd,      \* SkillsManager.cache_by_cwd: cwd -> Option<outcome>
    sk_threads,        \* thread -> what it loaded and has yet to insert
    sk_call,           \* history: what the last skills call did
    sk_inj,            \* the inputs of build_skill_injections and its result
    sk_system          \* the system skills on the disk and the last installation

scrollVars == <<config, stream, last_redraw_at, carry_lines, carry_direction,
                update, call, fin, nstreams, seen>>
animVars   == <<commit_anim_running, workers, channel>>
taVars     == <<text, cursor_pos, wrap_cache, preferred_col, elements,
                kill_buffer, ta_state, ta_call>>
trVars     == <<selection, tracker, clock, sel_call, frame>>
tmVars     == <<terminal, draw_call>>
cpVars     == <<copy_in, copy_out>>
skVars     == <<sk_disk, cache_by_cwd, sk_threads, sk_call, sk_inj>>
sysVars    == <<sk_system>>
restVars   == <<tmVars, cpVars, skVars, sysVars>>
vars       == <<scrollVars, animVars, taVars, trVars, restVars>>

exceptTerminal == <<scrollVars, animVars, taVars, trVars, cpVars, skVars, sysVars>>
exceptCopy == <<scrollVars, animVars, taVars, trVars, tmVars, skVars, sysVars>>
exceptSkills == <<scrollVars, animVars, taVars, trVars, tmVars, cpVars, sysVars>>
exceptSystem == <<scrollVars, animVars, taVars, trVars, tmVars, cpVars, skVars>>

-----------------------------------------------------------------------------
(* Generic helpers                                                         *)

Min(a, b) == IF a <= b THEN a ELSE b
Max(a, b) == IF a >= b THEN a ELSE b
Abs(a) == IF a < 0 THEN -a ELSE a
Clamp(x, lo, hi) == IF x < lo THEN lo ELSE IF x > hi THEN hi ELSE x
Signum(x) == IF x > 0 THEN 1 ELSE IF x < 0 THEN -1 ELSE 0

RECURSIVE Gcd(_, _)
Gcd(a, b) == IF b = 0 THEN a ELSE Gcd(b, a % b)

Pow2(k) == 2 ^ k

\* Option<T> is the empty or the one-element sequence.
None == <<>>
Some(x) == <<x>>

-----------------------------------------------------------------------------
(* Rationals <<num, den>>, den > 0.  The trackpad path of desired_lines_f32 *)
(* is computed in them; a value kept in the state is in lowest terms.      *)

Rat(n, d) == IF n = 0 THEN <<0, 1>> ELSE <<n \div Gcd(Abs(n), d), d \div Gcd(Abs(n), d)>>
RInt(n) == <<n, 1>>
RNorm(a) == Rat(a[1], a[2])
RAdd(a, b) == <<a[1] * b[2] + b[1] * a[2], a[2] * b[2]>>
RSub(a, b) == <<a[1] * b[2] - b[1] * a[2], a[2] * b[2]>>
RMul(a, b) == <<a[1] * b[1], a[2] * b[2]>>
RLess(a, b) == a[1] * b[2] < b[1] * a[2]
RClamp(x, lo, hi) == IF RLess(x, lo) THEN lo ELSE IF RLess(hi, x) THEN hi ELSE x
\* f32::trunc() as i32: rounds toward zero.
RTrunc(a) == IF a[1] >= 0 THEN a[1] \div a[2] ELSE -((-a[1]) \div a[2])

-----------------------------------------------------------------------------
(* IEEE-754 binary32 arithmetic of the wheel path of desired_lines_f32:    *)
(* `accumulated_events as f32 * (lines_per_tick / events_per_tick)`.  A    *)
(* positive f32 is <<m, k>> with value m / 2^k and 2^23 <= m < 2^24; both  *)
(* operations round to nearest, ties to even.                              *)

F32_MANT_BITS == 24

RoundHalfEven(quot, rem, divisor) ==
    IF 2 * rem > divisor \/ (2 * rem = divisor /\ quot % 2 = 1)
    THEN quot + 1 ELSE quot

\* the k for which 2^23 <= p * 2^k / q < 2^24
F32Scale(p, q) ==
    CHOOSE k \in 0 .. 2 * F32_MANT_BITS : p * Pow2(k) >= q * Pow2(F32_MANT_BITS - 1)

\* a quotient n / q rounded to a 24-bit mantissa m, as the f32 <<m, k>>
F32Norm(m, k) ==
    IF m = Pow2(F32_MANT_BITS) THEN <<Pow2(F32_MANT_BITS - 1), k - 1>> ELSE <<m, k>>
F32DivAt(p, q, k) ==
    F32Norm(RoundHalfEven((p * Pow2(k)) \div q, (p * Pow2(k)) % q, q), k)
\* p as f32 / q as f32, for integers 0 < p, 0 < q
F32Div(p, q) == F32DivAt(p, q, F32Scale(p, q))

\* quotient and remainder of the product a * m by 2^s, computed from the
\* high and the low bits of m: the product itself may pass 2^31
MulQuot(a, m, s) == a * (m \div Pow2(s)) + (a * (m % Pow2(s))) \div Pow2(s)
MulRem(a, m, s) == (a * (m % Pow2(s))) % Pow2(s)

\* the least s for which a * m / 2^s < 2^24, for 0 < a
F32Shift(a, m) ==
    CHOOSE s \in 0 .. F32_MANT_BITS :
        /\ m \div Pow2(s) <= Pow2(F32_MANT_BITS) \div a
        /\ MulQuot(a, m, s) < Pow2(F32_MANT_BITS)
        /\ \A r \in 0 .. (s - 1) :
               \/ m \div Pow2(r) > Pow2(F32_MANT_BITS) \div a
               \/ MulQuot(a, m, r) >= Pow2(F32_MANT_BITS)

F32MulAt(a, m, k, s) ==
    <<RoundHalfEven(MulQuot(a, m, s), MulRem(a, m, s), Pow2(s))
          * (IF k >= s THEN 1 ELSE Pow2(s - k)),
      IF k >= s THEN Pow2(k - s) ELSE 1>>
\* a as f32 * x, for an integer 0 < a and an f32 x = <<m, k>>; the result
\* as a rational (the exact value of the rounded product)
F32MulInt(a, x) == F32MulAt(a, x[1], x[2], F32Shift(a, x[1]))

-----------------------------------------------------------------------------
(* Scroll normaliser: constants (mouse.rs:26-40)                           *)

STREAM_GAP_MS == 80
REDRAW_CADENCE_MS == 16
DEFAULT_EVENTS_PER_TICK == 3
DEFAULT_WHEEL_LINES_PER_TICK == 3
DEFAULT_TRACKPAD_LINES_PER_TICK == 1
DEFAULT_WHEEL_TICK_DETECT_MAX_MS == 12
DEFAULT_WHEEL_LIKE_MAX_DURATION_MS == 200
DEFAULT_TRACKPAD_ACCEL_EVENTS == 30
DEFAULT_TRACKPAD_ACCEL_MAX == 3
MAX_EVENTS_PER_STREAM == 256
MAX_ACCUMULATED_LINES == 256
MIN_LINES_PER_WHEEL_STREAM == 1

\* ScrollDirection::sign
Sign(direction) == IF direction = "Up" THEN -1 ELSE 1
\* ScrollDirection::inverted
Inverted(direction) == IF direction = "Up" THEN "Down" ELSE "Up"

\* ScrollConfig::default
DefaultConfig ==
    [events_per_tick |-> DEFAULT_EVENTS_PER_TICK,
     wheel_lines_per_tick |-> DEFAULT_WHEEL_LINES_PER_TICK,
     trackpad_lines_per_tick |-> DEFAULT_TRACKPAD_LINES_PER_TICK,
     trackpad_accel_events |-> DEFAULT_TRACKPAD_ACCEL_EVENTS,
     trackpad_accel_max |-> DEFAULT_TRACKPAD_ACCEL_MAX,
     mode |-> "Auto",
     wheel_tick_detect_max |-> DEFAULT_WHEEL_TICK_DETECT_MAX_MS,
     wheel_like_max_duration |-> DEFAULT_WHEEL_LIKE_MAX_DURATION_MS,
     invert_direction |-> FALSE]

\* ScrollConfig::apply_direction
ApplyDirection(direction) ==
    IF config.invert_direction THEN Inverted(direction) ELSE direction

\* ScrollConfig::events_per_tick_f32 etc.: the `.max(1)` guards, and the
\* trackpad divisor capped at the typical wheel tick size
EventsPerTick == Max(config.events_per_tick, 1)
WheelLinesPerTick == Max(config.wheel_lines_per_tick, 1)
TrackpadLinesPerTick == Max(config.trackpad_lines_per_tick, 1)
TrackpadEventsPerTick == Clamp(config.events_per_tick, 1, DEFAULT_EVENTS_PER_TICK)
TrackpadAccelEvents == Max(config.trackpad_accel_events, 1)
TrackpadAccelMax == Max(config.trackpad_accel_max, 1)

(* Instants are kept relative to the running clock: last_redraw_at and a   *)
(* stream's `last` hold the age now - instant in ms, and every handler      *)
(* first ages them by the time dt that passed since the previous handler;  *)
(* a stream's `start` holds last - start, the time from its first to its   *)
(* latest event.  Each saturates just beyond the durations the code        *)
(* compares it with, so no comparison changes: `last` beyond STREAM_GAP,   *)
(* last_redraw_at at REDRAW_CADENCE, `start` beyond the one threshold the  *)
(* configuration reads (wheel_tick_detect_max in maybe_promote_kind when   *)
(* events_per_tick >= 2, wheel_like_max_duration in finalize_kind when     *)
(* events_per_tick <= 1, none outside Auto mode).                          *)
GapCap == STREAM_GAP_MS + 1
DurCap ==
    CASE config.mode # "Auto" -> 0
      [] config.events_per_tick >= 2 -> config.wheel_tick_detect_max + 1
      [] OTHER -> config.wheel_like_max_duration + 1

\* ScrollStream::new
NewStream(direction) ==
    [start |-> 0, last |-> 0, direction |-> direction, event_count |-> 0,
     accumulated_events |-> 0, applied_lines |-> 0, kind |-> "Unknown",
     first_tick_completed_at |-> None, just_promoted |-> FALSE]

Aged(s, dt) == [s EXCEPT !.last = Min(@ + dt, GapCap)]
AgedRedraw(r, dt) == Min(r + dt, REDRAW_CADENCE_MS)

\* ScrollStream::push_event at `now`: the time since the previous event joins
\* the stream's duration
PushEvent(s, direction) ==
    [s EXCEPT !.last = 0,
              !.start = Min(@ + s.last, DurCap),
              !.direction = direction,
              !.event_count = Min(@ + 1, MAX_EVENTS_PER_STREAM),
              !.accumulated_events =
                  Clamp(@ + Sign(direction), -MAX_EVENTS_PER_STREAM, MAX_EVENTS_PER_STREAM)]

\* ScrollStream::maybe_promote_kind, called right after push_event:
\* elapsed = now - start = s.start
MaybePromoteKind(s) ==
    IF config.mode # "Auto" THEN s
    ELSE IF s.kind # "Unknown" THEN s
    ELSE IF EventsPerTick >= 2 /\ s.event_count >= EventsPerTick
         THEN IF s.start <= config.wheel_tick_detect_max
              THEN [s EXCEPT !.first_tick_completed_at = IF @ = None THEN Some(s.start) ELSE @,
                             !.kind = "Wheel", !.just_promoted = TRUE]
              ELSE [s EXCEPT !.first_tick_completed_at = IF @ = None THEN Some(s.start) ELSE @]
         ELSE s

\* ScrollStream::finalize_kind; duration = last - start = s.start
FinalizeKind(s) ==
    CASE config.mode = "Wheel" -> [s EXCEPT !.kind = "Wheel"]
      [] config.mode = "Trackpad" -> [s EXCEPT !.kind = "Trackpad"]
      [] OTHER ->
           IF s.kind # "Unknown" THEN s
           ELSE IF /\ config.events_per_tick <= 1
                   /\ s.event_count <= 2
                   /\ s.start <= config.wheel_like_max_duration
                THEN [s EXCEPT !.kind = "Wheel"]
                ELSE [s EXCEPT !.kind = "Trackpad"]

\* ScrollStream::is_wheel_like
IsWheelLike(s) ==
    CASE config.mode = "Wheel" -> TRUE
      [] config.mode = "Trackpad" -> FALSE
      [] OTHER -> s.kind = "Wheel"

\* ScrollStream::effective_lines_per_tick_f32
EffectiveLinesPerTick(s) ==
    CASE config.mode = "Wheel" -> WheelLinesPerTick
      [] config.mode = "Trackpad" -> TrackpadLinesPerTick
      [] OTHER -> IF s.kind = "Wheel" THEN WheelLinesPerTick ELSE TrackpadLinesPerTick

MaxLines == RInt(MAX_ACCUMULATED_LINES)
MinLines == RInt(-MAX_ACCUMULATED_LINES)

\* the wheel path of desired_lines_f32:
\* events * (wheel_lines_per_tick / events_per_tick) in f32, clamped
WheelClamp(mag) == IF RTrunc(mag) >= MAX_ACCUMULATED_LINES THEN MaxLines ELSE mag
WheelLinesF32(s) ==
    IF s.accumulated_events = 0 THEN RInt(0)
    ELSE RMul(RInt(Signum(s.accumulated_events)),
              WheelClamp(F32MulInt(Abs(s.accumulated_events),
                                   F32Div(EffectiveLinesPerTick(s), EventsPerTick))))

\* the bounded acceleration factor of the trackpad path
TrackpadAccel(s) ==
    RClamp(<<TrackpadAccelEvents + Abs(s.accumulated_events), TrackpadAccelEvents>>,
           RInt(1), RInt(TrackpadAccelMax))

\* the trackpad path of desired_lines_f32: events * (trackpad_lines_per_tick /
\* min(events_per_tick, 3)), plus the carry, times the acceleration, clamped
\* after each step
TrackpadLinesF32(s, carry) ==
    RClamp(RMul(RClamp(RAdd(RClamp(<<s.accumulated_events * EffectiveLinesPerTick(s),
                                     TrackpadEventsPerTick>>, MinLines, MaxLines),
                            carry), MinLines, MaxLines),
                TrackpadAccel(s)), MinLines, MaxLines)

\* ScrollStream::desired_lines_f32
DesiredLinesF32(s, carry) ==
    IF IsWheelLike(s) THEN WheelLinesF32(s) ELSE TrackpadLinesF32(s, carry)

\* variant: the minimum of one line is forgotten
WheelMinimum_Silent(s, desired_lines) == desired_lines

\* flush_lines_at, lines 523-525: a wheel-like stream with non-zero input gets
\* at least one line
WheelMinimum(s, desired_lines) ==
    IF IsWheelLike(s) /\ desired_lines = 0 /\ s.accumulated_events # 0
    THEN Signum(s.accumulated_events) * MIN_LINES_PER_WHEEL_STREAM
    ELSE desired_lines

\* the integer total a flush aims at (flush_lines_at, lines 518-525)
FlushTarget(s, carry) == WheelMinimum(s, RTrunc(DesiredLinesF32(s, carry)))

\* variant: the lines of a flush are not counted as applied
ApplyDelta_Uncounted(redraw, s, delta) ==
    IF delta = 0
    THEN [lines |-> 0, stream |-> s, last_redraw_at |-> redraw]
    ELSE [lines |-> Clamp(delta, -MAX_ACCUMULATED_LINES, MAX_ACCUMULATED_LINES),
          stream |-> s,
          last_redraw_at |-> 0]

\* flush_lines_at, lines 527-535
ApplyDelta(redraw, s, delta) ==
    IF delta = 0
    THEN [lines |-> 0, stream |-> s, last_redraw_at |-> redraw]
    ELSE [lines |-> Clamp(delta, -MAX_ACCUMULATED_LINES, MAX_ACCUMULATED_LINES),
          stream |-> [s EXCEPT !.applied_lines =
                          @ + Clamp(delta, -MAX_ACCUMULATED_LINES, MAX_ACCUMULATED_LINES)],
          last_redraw_at |-> 0]

\* MouseScrollState::flush_lines_at
FlushLinesAt(redraw, carry, s) ==
    ApplyDelta(redraw, s, FlushTarget(s, carry) - s.applied_lines)

\* finalize_stream_at, lines 494-500: the fraction a trackpad stream leaves
KeepCarry(f, carry) ==
    [lines |-> f.lines, stream |-> f.stream, last_redraw_at |-> f.last_redraw_at,
     carry_lines |->
         IF f.stream.kind # "Wheel" /\ config.mode # "Wheel"
         THEN RNorm(RSub(DesiredLinesF32(f.stream, carry), RInt(f.stream.applied_lines)))
         ELSE RInt(0)]

\* MouseScrollState::finalize_stream_at
FinalizeStreamAt(redraw, carry, s) ==
    KeepCarry(FlushLinesAt(redraw, carry, FinalizeKind(s)), carry)

\* variant: pending lines do not pull the tick forward
NextTickOf_GapOnly(s, redraw, desired_lines) == STREAM_GAP_MS - s.last

\* next_tick_in, lines 554-569, for an active stream whose gap is within
\* STREAM_GAP
NextTickOf(s, redraw, desired_lines) ==
    IF desired_lines # s.applied_lines
    THEN Min(STREAM_GAP_MS - s.last,
             IF redraw >= REDRAW_CADENCE_MS THEN 0 ELSE REDRAW_CADENCE_MS - redraw)
    ELSE STREAM_GAP_MS - s.last

\* variant: a tick is asked for only while lines are pending
NextTickIn_PendingOnly(strm, redraw, carry) ==
    IF strm = None THEN None
    ELSE IF RTrunc(DesiredLinesF32(strm[1], carry)) = strm[1].applied_lines THEN None
    ELSE Some(0)

\* MouseScrollState::next_tick_in
NextTickIn(strm, redraw, carry) ==
    IF strm = None THEN None
    ELSE IF strm[1].last > STREAM_GAP_MS THEN None
    ELSE Some(NextTickOf(strm[1], redraw, RTrunc(DesiredLinesF32(strm[1], carry))))

-----------------------------------------------------------------------------
(* Scroll normaliser: the state machine                                    *)

\* Bounds of the model: events pushed into one stream, streams started.
MaxEvents == 3
MaxStreams == 2

\* Time that passes between two handler calls, in ms.
Dts == {0, 8, 16, 81}
Directions == {"Up", "Down"}

\* Configurations: ScrollConfig::from_terminal for the terminals and
\* overrides used by the unit tests (mouse.rs:819-1101).
ScrollConfigs ==
    { DefaultConfig,                                              \* Apple Terminal, Auto
      [DefaultConfig EXCEPT !.events_per_tick = 1,                \* WezTerm, Auto
                            !.wheel_like_max_duration = 10,
                            !.invert_direction = TRUE],
      [DefaultConfig EXCEPT !.mode = "Wheel", !.wheel_lines_per_tick = 2],
      [DefaultConfig EXCEPT !.mode = "Trackpad", !.events_per_tick = 9],   \* Warp, trackpad forced
      [DefaultConfig EXCEPT !.mode = "Trackpad", !.events_per_tick = 1,
                            !.trackpad_accel_events = 2] }

NoCall ==
    [op |-> "init", gap |-> 0, old_direction |-> "None", since_redraw |-> 0,
     fin_lines |-> 0, on_schedule |-> TRUE, returned |-> 0]

NoFin ==
    [kind |-> "None", direction |-> "None", carry |-> RInt(0), pending |-> 0,
     returned |-> 0, target |-> 0]

ScrollInitWith(configs) ==
    /\ config \in configs
    /\ stream = None
    /\ last_redraw_at \in {0, REDRAW_CADENCE_MS}   \* new_at(now), just now or some time ago
    /\ carry_lines = RInt(0)
    /\ carry_direction = "None"
    /\ update = [lines |-> 0, next_tick_in |-> None]
    /\ call = NoCall
    /\ fin = NoFin
    /\ nstreams = 0
    /\ seen = 0

ScrollInit == ScrollInitWith(ScrollConfigs)

\* history: the stream a finalization closed, what it left unflushed, the
\* lines the handlers returned for it and the total its last flush aimed at
FinOf(f, carry) ==
    [kind |-> f.stream.kind, direction |-> f.stream.direction, carry |-> f.carry_lines,
     pending |-> FlushTarget(f.stream, carry) - f.stream.applied_lines,
     returned |-> call.returned + f.lines,
     target |-> FlushTarget(f.stream, carry)]

\* variant: a direction reversal does not close the stream
EventCloses_GapOnly(s, direction) == s.last > STREAM_GAP_MS

\* on_scroll_event_at, line 405: whether the event closes the active stream
EventCloses(s, direction) == s.last > STREAM_GAP_MS \/ s.direction # direction

\* on_tick_at, line 461: whether the tick closes the active stream
TickCloses(s) == s.last > STREAM_GAP_MS

\* variant: the carry survives a direction change
StartCarry_Kept(carry, direction) == carry

\* on_scroll_event_at, lines 413-416: the carry a newly started stream inherits
StartCarry(carry, direction) == IF carry_direction # direction THEN RInt(0) ELSE carry

\* a finalization that does not happen
NotFinalized(redraw, carry, s) ==
    [lines |-> 0, stream |-> s, last_redraw_at |-> redraw, carry_lines |-> carry]

\* variant: only wheel-like streams are flushed by an event
EventFlush_WheelOnly(redraw, carry, s) ==
    IF IsWheelLike(s)
    THEN FlushLinesAt(redraw, carry, [s EXCEPT !.just_promoted = FALSE])
    ELSE [lines |-> 0, stream |-> s, last_redraw_at |-> redraw]

\* variant: every event flushes, whatever the redraw cadence
EventFlush_Always(redraw, carry, s) ==
    FlushLinesAt(redraw, carry, [s EXCEPT !.just_promoted = FALSE])

\* on_scroll_event_at, lines 428-434
EventFlush(redraw, carry, s) ==
    IF IsWheelLike(s) \/ redraw >= REDRAW_CADENCE_MS \/ s.just_promoted
    THEN FlushLinesAt(redraw, carry, [s EXCEPT !.just_promoted = FALSE])
    ELSE [lines |-> 0, stream |-> s, last_redraw_at |-> redraw]

\* MouseScrollState::on_scroll_event_at, dt ms after the previous handler
ScrollEvent(dt, raw_direction, maxEvents, maxStreams) ==
    \E direction \in {ApplyDirection(raw_direction)},
       r0 \in {AgedRedraw(last_redraw_at, dt)},
       old \in {IF stream = None THEN None ELSE Some(Aged(stream[1], dt))} :
    \E closes \in {old # None /\ EventCloses(old[1], direction)} :
    \E f \in {IF closes THEN FinalizeStreamAt(r0, carry_lines, old[1])
                        ELSE NotFinalized(r0, carry_lines, old)} :
    \E starts \in {old = None \/ closes} :
    \E c \in {IF starts THEN StartCarry(f.carry_lines, direction) ELSE f.carry_lines} :
    \E g \in {EventFlush(f.last_redraw_at, c,
                         MaybePromoteKind(PushEvent(IF starts THEN NewStream(direction)
                                                              ELSE old[1], direction)))} :
        /\ IF starts THEN nstreams < maxStreams ELSE seen < maxEvents
        /\ stream' = Some(g.stream)
        /\ last_redraw_at' = g.last_redraw_at
        /\ carry_lines' = c
        /\ carry_direction' = IF starts THEN direction ELSE carry_direction
        /\ update' = [lines |-> f.lines + g.lines,
                      next_tick_in |-> NextTickIn(Some(g.stream), g.last_redraw_at, c)]
        /\ call' = [op |-> "event",
                    gap |-> IF old = None THEN 0 ELSE old[1].last,
                    old_direction |-> IF old = None THEN "None" ELSE old[1].direction,
                    since_redraw |-> r0,
                    fin_lines |-> f.lines,
                    on_schedule |-> TRUE,
                    returned |-> IF starts THEN g.lines ELSE call.returned + g.lines]
        /\ fin' = IF closes THEN FinOf(f, carry_lines) ELSE fin
        /\ nstreams' = IF starts THEN nstreams + 1 ELSE nstreams
        /\ seen' = IF starts THEN 1 ELSE Min(seen + 1, MAX_EVENTS_PER_STREAM + 2)

\* on_tick_at, lines 467-474: the coalesced flush of a stream that stays open
TickFlush(redraw, carry, s) ==
    IF redraw >= REDRAW_CADENCE_MS
    THEN FlushLinesAt(redraw, carry, s)
    ELSE [lines |-> 0, stream |-> s, last_redraw_at |-> redraw]

\* MouseScrollState::on_tick_at, dt ms after the previous handler; `asked`
\* tells whether the caller runs it because the delay of next_tick_in is over
ScrollTick(dt, asked) ==
    \E r0 \in {AgedRedraw(last_redraw_at, dt)},
       old \in {IF stream = None THEN None ELSE Some(Aged(stream[1], dt))} :
    \E closes \in {old # None /\ TickCloses(old[1])} :
    \E f \in {IF closes THEN FinalizeStreamAt(r0, carry_lines, old[1])
                        ELSE NotFinalized(r0, carry_lines, old)} :
    \E g \in {IF old = None \/ closes
              THEN [lines |-> 0, stream |-> None, last_redraw_at |-> f.last_redraw_at]
              ELSE TickFlush(r0, carry_lines, old[1])} :
    \E strm \in {IF old = None \/ closes THEN None ELSE Some(g.stream)} :
        /\ stream' = strm
        /\ last_redraw_at' = g.last_redraw_at
        /\ carry_lines' = f.carry_lines
        /\ carry_direction' = carry_direction
        /\ update' = [lines |-> f.lines + g.lines,
                      next_tick_in |-> NextTickIn(strm, g.last_redraw_at, f.carry_lines)]
        /\ call' = [op |-> "tick",
                    gap |-> IF old = None THEN 0 ELSE old[1].last,
                    old_direction |-> IF old = None THEN "None" ELSE old[1].direction,
                    since_redraw |-> r0,
                    fin_lines |-> f.lines,
                    on_schedule |-> old # None /\ call.on_schedule /\ asked,
                    returned |-> IF old = None \/ closes THEN 0
                                 ELSE call.returned + g.lines]
        /\ fin' = IF closes THEN FinOf(f, carry_lines) ELSE fin
        /\ UNCHANGED <<nstreams, seen>>

\* App::handle_mouse_event -> mouse_scroll_update (app.rs:1008-1011)
OnScrollEvent ==
    /\ \E dt \in Dts, d \in Directions : ScrollEvent(dt, d, MaxEvents, MaxStreams)
    /\ UNCHANGED <<config, animVars, taVars, trVars, restVars>>

\* App::handle_scroll_tick on the frame apply_scroll_update scheduled with
\* schedule_frame_in(next_tick_in) (app.rs:1033-1037, 1049-1055)
OnScheduledTick ==
    /\ update.next_tick_in # None
    /\ ScrollTick(update.next_tick_in[1], TRUE)
    /\ UNCHANGED <<config, animVars, taVars, trVars, restVars>>

\* App::handle_scroll_tick on a frame drawn for any other reason (app.rs:597)
OnTick ==
    /\ \E dt \in Dts : ScrollTick(dt, FALSE)
    /\ UNCHANGED <<config, animVars, taVars, trVars, restVars>>

-----------------------------------------------------------------------------
(* Scroll normaliser: one dense burst.  A terminal that reports a wheel    *)
(* notch as events_per_tick raw events sends them back to back; the burst  *)
(* is followed up to one event past the notch.                             *)

\* Bound of the model: events of the burst.
MaxBurst == 258

\* Time between two events of the burst, in ms: they arrive within the
\* same millisecond.
BurstDts == {0}

\* Auto mode with the events_per_tick of Warp (from_terminal) and two
\* values of the tui.scroll_events_per_tick override (a u16)
BurstConfigs ==
    { [DefaultConfig EXCEPT !.events_per_tick = 9, !.wheel_tick_detect_max = 20],
      [DefaultConfig EXCEPT !.events_per_tick = 37],
      [DefaultConfig EXCEPT !.events_per_tick = 257] }

BurstInit == ScrollInitWith(BurstConfigs)

OnBurstEvent ==
    /\ \E dt \in BurstDts, d \in Directions :
          ScrollEvent(dt, d, Min(MaxBurst, EventsPerTick + 1), 1)
    /\ UNCHANGED <<config, animVars, taVars, trVars, restVars>>

-----------------------------------------------------------------------------
(* Scroll normaliser: a notch after a trackpad gesture.  On Warp, which     *)
(* reports a wheel notch as nine events, a short gesture is followed more  *)
(* than 80 ms later by the events of one notch.                            *)

\* ScrollConfig::from_terminal for Warp, no override
WarpConfig == [DefaultConfig EXCEPT !.events_per_tick = 9, !.wheel_tick_detect_max = 20]

\* Time between two events, in ms
CarryDts == {0, 16, 81}

CarryInit == ScrollInitWith({WarpConfig})

OnCarriedEvent ==
    /\ \E dt \in CarryDts, d \in Directions :
          ScrollEvent(dt, d, EventsPerTick, MaxStreams)
    /\ UNCHANGED <<config, animVars, taVars, trVars, restVars>>

-----------------------------------------------------------------------------
(* Scroll normaliser: one gesture that goes on.  Every event has the       *)
(* direction of the first and comes no more than 80 ms after the one       *)
(* before it, so the stream it began stays open.  The first events may     *)
(* share an instant, as those of a notch do; after them time keeps         *)
(* passing.                                                                *)

\* Time between two events that do not share an instant, in ms
GestureDts == {8, REDRAW_CADENCE_MS, STREAM_GAP_MS}

\* ScrollConfig::from_terminal for Apple Terminal, WezTerm and Warp, and
\* the wheel mode forced
GestureConfigs ==
    { DefaultConfig,
      [DefaultConfig EXCEPT !.events_per_tick = 1],
      WarpConfig,
      [DefaultConfig EXCEPT !.mode = "Wheel"] }

GestureInit == ScrollInitWith(GestureConfigs)

\* on_scroll_event_at for an event that continues the gesture
GestureEvent(dts) ==
    /\ \E dt \in dts, d \in Directions :
          /\ stream # None => ApplyDirection(d) = stream[1].direction
          /\ ScrollEvent(dt, d, MAX_EVENTS_PER_STREAM + 3, 1)
    /\ UNCHANGED <<config, animVars, taVars, trVars, restVars>>

GestureEventAtOnce ==
    /\ stream # None
    /\ stream[1].start = 0
    /\ GestureEvent({0})

GestureEventLater == GestureEvent(GestureDts)

-----------------------------------------------------------------------------
(* Commit animation (app.rs:1460-1481): the app's event loop handles        *)
(* StartCommitAnimation, StopCommitAnimation and CommitTick one at a time; *)
(* each spawned thread runs                                                *)
(*     while running.load() { sleep(50 ms); tx.send(CommitTick); }         *)
(* on its own.  workers[i] is the position of the i-th thread spawned:     *)
(* "load" before the loop condition, "sleep" inside the sleep, "exited".   *)

\* Bounds of the model: threads spawned, CommitTick events queued.
MaxWorkers == 3
MaxTicks == 2

AnimInit ==
    /\ commit_anim_running = FALSE
    /\ workers = <<>>
    /\ channel = 0

\* AppEvent::StartCommitAnimation: compare_exchange(false, true), and a new
\* thread when it succeeds
StartCommitAnimation ==
    /\ Len(workers) < MaxWorkers
    /\ IF commit_anim_running = FALSE
       THEN /\ commit_anim_running' = TRUE
            /\ workers' = Append(workers, "load")
       ELSE UNCHANGED <<commit_anim_running, workers>>
    /\ UNCHANGED <<channel, scrollVars, taVars, trVars, restVars>>

\* AppEvent::StopCommitAnimation: store(false)
StopCommitAnimation ==
    /\ commit_anim_running' = FALSE
    /\ UNCHANGED <<workers, channel, scrollVars, taVars, trVars, restVars>>

\* AppEvent::CommitTick: the app takes one tick off its channel
CommitTick ==
    /\ channel > 0
    /\ channel' = channel - 1
    /\ UNCHANGED <<commit_anim_running, workers, scrollVars, taVars, trVars, restVars>>

\* the thread evaluates `while running.load(Relaxed)`
WorkerLoad(i) ==
    /\ workers[i] = "load"
    /\ workers' = [workers EXCEPT ![i] = IF commit_anim_running THEN "sleep" ELSE "exited"]
    /\ UNCHANGED <<commit_anim_running, channel, scrollVars, taVars, trVars, restVars>>

\* the thread's sleep of 50 ms ends and it sends CommitTick
WorkerTick(i) ==
    /\ workers[i] = "sleep"
    /\ channel < MaxTicks
    /\ workers' = [workers EXCEPT ![i] = "load"]
    /\ channel' = channel + 1
    /\ UNCHANGED <<commit_anim_running, scrollVars, taVars, trVars, restVars>>

WorkerLoads == \E i \in DOMAIN workers : WorkerLoad(i)
WorkerTicks == \E i \in DOMAIN workers : WorkerTick(i)

(***************************************************************************)
(* Composer text area (bottom_pane/textarea.rs).  The text is a sequence   *)
(* of characters, each of them one byte, one grapheme cluster and one      *)
(* column wide, so a position is a byte offset in 0 .. Len(text).  A range *)
(* start..end is the record [start, end], half open.  The operations are   *)
(* functions from a TextArea record to the TextArea record they leave.     *)
(***************************************************************************)
\* A word character and the newline, which is the whitespace character.
Chars == {"a", "\n"}

\* "`~!@#$%^&*()-=+[{]}\\|;:'\",.<>/?", of which Chars has none
WORD_SEPARATORS == {"`", "~", "!", "@", "#", "$", "%", "^", "&", "*", "(", ")", "-", "=", "+",
                    "[", "{", "]", "}", "\\", "|", ";", ":", "'", "\"", ",", ".", "<", ">",
                    "/", "?"}

IsWordSeparator(ch) == ch \in WORD_SEPARATORS

IsWhitespace(ch) == ch = "\n"

Width(g) == 1

Range(start, end) == [start |-> start, end |-> end]

Slice(t, start, end) == SubSeq(t, start + 1, end)

SatSub(a, b) == IF a >= b THEN a - b ELSE 0

MinOf(S) == CHOOSE i \in S : \A j \in S : i <= j

MaxOf(S) == CHOOSE i \in S : \A j \in S : i >= j

RECURSIVE StrWidth(_, _, _)
StrWidth(t, start, end) ==
    IF start >= end THEN 0 ELSE Width(t[start + 1]) + StrWidth(t, start + 1, end)

\* text[..upto].rfind('\n') and text[from..].find('\n').map(|i| i + from)
RFindNewline(t, upto) ==
    IF \E i \in 0..(upto - 1) : t[i + 1] = "\n"
    THEN Some(MaxOf({i \in 0..(upto - 1) : t[i + 1] = "\n"}))
    ELSE None

FindNewline(t, from) ==
    IF \E i \in from..(Len(t) - 1) : t[i + 1] = "\n"
    THEN Some(MinOf({i \in from..(Len(t) - 1) : t[i + 1] = "\n"}))
    ELSE None

BeginningOfLine(t, pos) ==
    IF RFindNewline(t, pos) = None THEN 0 ELSE RFindNewline(t, pos)[1] + 1

EndOfLine(t, pos) ==
    IF FindNewline(t, pos) = None THEN Len(t) ELSE FindNewline(t, pos)[1]

WrappedLineIndexByStart(lines, pos) ==
    IF \E i \in DOMAIN lines : lines[i].start <= pos
    THEN Some(Cardinality({i \in DOMAIN lines : lines[i].start <= pos}) - 1)
    ELSE None

FindElementContaining(els, pos) ==
    IF \E i \in DOMAIN els : pos > els[i].start /\ pos < els[i].end
    THEN Some(MinOf({i \in DOMAIN els : pos > els[i].start /\ pos < els[i].end}))
    ELSE None

NearestEdge(e, pos) ==
    IF SatSub(pos, e.start) <= SatSub(e.end, pos) THEN e.start ELSE e.end

ClampPosForInsertion(els, pos) ==
    IF FindElementContaining(els, pos) = None
    THEN pos
    ELSE NearestEdge(els[FindElementContaining(els, pos)[1]], pos)

ClampPosToNearestBoundary_NoSnap(t, els, pos) == Min(pos, Len(t))

ClampPosToNearestBoundary(t, els, pos) ==
    IF FindElementContaining(els, Min(pos, Len(t))) = None
    THEN Min(pos, Len(t))
    ELSE NearestEdge(els[FindElementContaining(els, Min(pos, Len(t)))[1]],
                     Min(pos, Len(t)))

AdjustPosOutOfElements(els, pos, prefer_start) ==
    IF FindElementContaining(els, pos) = None
    THEN pos
    ELSE IF prefer_start
         THEN els[FindElementContaining(els, pos)[1]].start
         ELSE els[FindElementContaining(els, pos)[1]].end

\* One pass of the `for e in &self.elements` loop, from element i on.
RECURSIVE ExpandPass(_, _, _)
ExpandPass(els, i, r) ==
    IF i > Len(els)
    THEN r
    ELSE ExpandPass(els, i + 1,
                    IF els[i].start < r.end /\ els[i].end > r.start
                    THEN Range(Min(r.start, els[i].start), Max(r.end, els[i].end))
                    ELSE r)

RECURSIVE ExpandFix(_, _, _)
ExpandFix(els, r, pass) ==
    IF pass = r THEN r ELSE ExpandFix(els, pass, ExpandPass(els, 1, pass))

ExpandRangeToElementBoundaries_Unexpanded(els, r) == r
ExpandRangeToElementBoundaries(els, r) == ExpandFix(els, r, ExpandPass(els, 1, r))

ShiftElement_Unshifted(e, at, end, inserted) ==
    IF e.end <= at \/ e.start >= end
    THEN e
    ELSE Range(Min(at, e.start), at + Max(inserted, SatSub(e.end, end)))
ShiftElement(e, at, end, inserted) ==
    IF e.end <= at
    THEN e
    ELSE IF e.start >= end
         THEN Range(e.start + inserted - (end - at), e.end + inserted - (end - at))
         ELSE Range(Min(at, e.start), at + Max(inserted, SatSub(e.end, end)))

ShiftKept(kept, at, end, inserted) ==
    [i \in DOMAIN kept |-> ShiftElement(kept[i], at, end, inserted)]

ShiftElements(els, at, removed, inserted) ==
    ShiftKept(SelectSeq(els, LAMBDA e : ~(e.start >= at /\ e.end <= at + removed)),
              at, at + removed, inserted)

UpdateElementsAfterReplace(els, start, end, inserted_len) ==
    ShiftElements(els, start, SatSub(end, start), inserted_len)

\* Vec::sort_by_key is stable: an element goes after those whose start is
\* not greater.
InsertByStart(sorted, e, n) ==
    SubSeq(sorted, 1, n) \o <<e>> \o SubSeq(sorted, n + 1, Len(sorted))

RECURSIVE SortByStart(_)
SortByStart(s) ==
    IF s = <<>>
    THEN <<>>
    ELSE InsertByStart(SortByStart(SubSeq(s, 1, Len(s) - 1)), s[Len(s)],
                       Cardinality({i \in 1..(Len(s) - 1) : s[i].start <= s[Len(s)].start}))

AddElement(els, r) == SortByStart(Append(els, r))

PrevAtomicBoundary(t, els, pos) ==
    IF pos = 0
    THEN 0
    ELSE IF \E i \in DOMAIN els : pos > els[i].start /\ pos <= els[i].end
         THEN els[MinOf({i \in DOMAIN els : pos > els[i].start /\ pos <= els[i].end})].start
         ELSE AdjustPosOutOfElements(els, pos - 1, TRUE)

NextAtomicBoundary(t, els, pos) ==
    IF pos >= Len(t)
    THEN Len(t)
    ELSE IF \E i \in DOMAIN els : pos >= els[i].start /\ pos < els[i].end
         THEN els[MinOf({i \in DOMAIN els : pos >= els[i].start /\ pos < els[i].end})].end
         ELSE AdjustPosOutOfElements(els, pos + 1, FALSE)

\* The word scans: the last (first) non-whitespace character before (from)
\* the cursor, then the run of characters of its class.
WordBreakAt(t, idx, is_separator) ==
    IsWhitespace(t[idx + 1]) \/ IsWordSeparator(t[idx + 1]) # is_separator

WordStartFrom(t, first_non_ws_idx) ==
    IF \E idx \in 0..(first_non_ws_idx - 1) :
           WordBreakAt(t, idx, IsWordSeparator(t[first_non_ws_idx + 1]))
    THEN MaxOf({idx \in 0..(first_non_ws_idx - 1) :
                    WordBreakAt(t, idx, IsWordSeparator(t[first_non_ws_idx + 1]))}) + 1
    ELSE 0

BeginningOfPreviousWord(t, els, cursor) ==
    IF \E i \in 0..(cursor - 1) : ~IsWhitespace(t[i + 1])
    THEN AdjustPosOutOfElements(els,
             WordStartFrom(t, MaxOf({i \in 0..(cursor - 1) : ~IsWhitespace(t[i + 1])})),
             TRUE)
    ELSE 0

WordEndFrom(t, word_start) ==
    IF \E idx \in (word_start + 1)..(Len(t) - 1) :
           WordBreakAt(t, idx, IsWordSeparator(t[word_start + 1]))
    THEN MinOf({idx \in (word_start + 1)..(Len(t) - 1) :
                    WordBreakAt(t, idx, IsWordSeparator(t[word_start + 1]))})
    ELSE Len(t)

EndOfNextWord(t, els, cursor) ==
    IF \E i \in cursor..(Len(t) - 1) : ~IsWhitespace(t[i + 1])
    THEN AdjustPosOutOfElements(els,
             WordEndFrom(t, MinOf({i \in cursor..(Len(t) - 1) : ~IsWhitespace(t[i + 1])})),
             FALSE)
    ELSE Len(t)

\* wrap_ranges (crate::wrapping): first-fit wrap of a text whose words have
\* no spaces to break at.  A wrapped line holds the characters up to the
\* next newline, at most `width` columns of them; its range takes in the
\* terminator after them, which move_cursor_up/down take off again.
RECURSIVE WrapFrom(_, _, _, _)
WrapFrom(t, start, end, width) ==
    <<Range(start, end + 1)>> \o
        (IF end >= Len(t)
         THEN <<>>
         ELSE IF t[end + 1] = "\n"
              THEN WrapFrom(t, end + 1, Min(EndOfLine(t, end + 1), end + 1 + width), width)
              ELSE WrapFrom(t, end, Min(EndOfLine(t, end), end + width), width))

WrapRanges(t, width) == WrapFrom(t, 0, Min(EndOfLine(t, 0), width), width)

NewTextArea ==
    [text |-> <<>>, cursor_pos |-> 0, wrap_cache |-> None, preferred_col |-> None,
     elements |-> <<>>, kill_buffer |-> <<>>]

SetText(ta, t) ==
    [ta EXCEPT !.text = t,
               !.cursor_pos = Clamp(@, 0, Len(t)),
               !.wrap_cache = None,
               !.preferred_col = None,
               !.elements = <<>>,
               !.kill_buffer = <<>>]

\* insert_str_at from its second line on, pos already clamped
InsertAt_KeepCache(ta, pos, s) ==
    [ta EXCEPT !.text = Slice(@, 0, pos) \o s \o Slice(@, pos, Len(@)),
               !.cursor_pos = IF pos <= @ THEN @ + Len(s) ELSE @,
               !.elements = ShiftElements(@, pos, 0, Len(s)),
               !.preferred_col = None]
InsertAt(ta, pos, s) ==
    [ta EXCEPT !.text = Slice(@, 0, pos) \o s \o Slice(@, pos, Len(@)),
               !.wrap_cache = None,
               !.cursor_pos = IF pos <= @ THEN @ + Len(s) ELSE @,
               !.elements = ShiftElements(@, pos, 0, Len(s)),
               !.preferred_col = None]

InsertStrAt(ta, pos, s) == InsertAt(ta, ClampPosForInsertion(ta.elements, pos), s)

InsertStr(ta, s) == InsertStrAt(ta, ta.cursor_pos, s)

SnapCursor(ta) ==
    [ta EXCEPT !.cursor_pos = ClampPosToNearestBoundary(ta.text, ta.elements, @)]

\* replace_range_raw with start and end clamped to the text
ReplaceAt_CursorToStart(ta, start, end, s) ==
    IF end - start = 0 /\ Len(s) = 0
    THEN ta
    ELSE SnapCursor(
           [ta EXCEPT !.text = Slice(@, 0, start) \o s \o Slice(@, end, Len(@)),
                      !.wrap_cache = None,
                      !.preferred_col = None,
                      !.elements = UpdateElementsAfterReplace(@, start, end, Len(s)),
                      !.cursor_pos =
                          Min(IF @ < start THEN @
                              ELSE IF @ <= end THEN start
                              ELSE @ + (Len(s) - (end - start)),
                              Len(ta.text) - (end - start) + Len(s))])
ReplaceAt(ta, start, end, s) ==
    IF end - start = 0 /\ Len(s) = 0
    THEN ta
    ELSE SnapCursor(
           [ta EXCEPT !.text = Slice(@, 0, start) \o s \o Slice(@, end, Len(@)),
                      !.wrap_cache = None,
                      !.preferred_col = None,
                      !.elements = UpdateElementsAfterReplace(@, start, end, Len(s)),
                      !.cursor_pos =
                          Min(IF @ < start THEN @
                              ELSE IF @ <= end THEN start + Len(s)
                              ELSE @ + (Len(s) - (end - start)),
                              Len(ta.text) - (end - start) + Len(s))])

ReplaceRangeRaw(ta, r, s) ==
    ReplaceAt(ta, Clamp(r.start, 0, Len(ta.text)), Clamp(r.end, 0, Len(ta.text)), s)

ReplaceRange(ta, r, s) ==
    ReplaceRangeRaw(ta, ExpandRangeToElementBoundaries(ta.elements, r), s)

SetCursorTo(ta, pos) ==
    [ta EXCEPT !.cursor_pos =
                   ClampPosToNearestBoundary(ta.text, ta.elements, Clamp(pos, 0, Len(ta.text))),
               !.preferred_col = None]

WrappedLines(ta, width) ==
    IF ta.wrap_cache = None \/ ta.wrap_cache[1].width # width
    THEN [ta EXCEPT !.wrap_cache =
                        Some([width |-> width, lines |-> WrapRanges(ta.text, width)])]
    ELSE ta

CurrentDisplayCol(ta) ==
    StrWidth(ta.text, BeginningOfLine(ta.text, ta.cursor_pos), ta.cursor_pos)

\* The position move_to_display_col_on_line stops at, scanning from i.
RECURSIVE DisplayColPos(_, _, _, _, _)
DisplayColPos(t, i, line_end, width_so_far, target_col) ==
    IF i >= line_end
    THEN line_end
    ELSE IF width_so_far + Width(t[i + 1]) > target_col
         THEN i
         ELSE DisplayColPos(t, i + 1, line_end, width_so_far + Width(t[i + 1]), target_col)

MoveToDisplayColOnLine(ta, line_start, line_end, target_col) ==
    [ta EXCEPT !.cursor_pos =
        ClampPosToNearestBoundary(ta.text, ta.elements,
            DisplayColPos(ta.text, line_start, line_end, 0, target_col))]

RECURSIVE PrevBoundaryTimes(_, _, _, _)
PrevBoundaryTimes(t, els, target, n) ==
    IF n = 0 \/ target = 0
    THEN target
    ELSE PrevBoundaryTimes(t, els, PrevAtomicBoundary(t, els, target), n - 1)

RECURSIVE NextBoundaryTimes(_, _, _, _)
NextBoundaryTimes(t, els, target, n) ==
    IF n = 0 \/ target >= Len(t)
    THEN target
    ELSE NextBoundaryTimes(t, els, NextAtomicBoundary(t, els, target), n - 1)

DeleteBackward(ta, n) ==
    IF n = 0 \/ ta.cursor_pos = 0
    THEN ta
    ELSE ReplaceRange(ta,
             Range(PrevBoundaryTimes(ta.text, ta.elements, ta.cursor_pos, n), ta.cursor_pos),
             <<>>)

DeleteForward(ta, n) ==
    IF n = 0 \/ ta.cursor_pos >= Len(ta.text)
    THEN ta
    ELSE ReplaceRange(ta,
             Range(ta.cursor_pos, NextBoundaryTimes(ta.text, ta.elements, ta.cursor_pos, n)),
             <<>>)

\* kill_range with the range already expanded
KillExpanded(ta, r) ==
    IF r.start >= r.end \/ Slice(ta.text, r.start, r.end) = <<>>
    THEN ta
    ELSE ReplaceRangeRaw([ta EXCEPT !.kill_buffer = Slice(ta.text, r.start, r.end)], r, <<>>)

KillRange(ta, r) == KillExpanded(ta, ExpandRangeToElementBoundaries(ta.elements, r))

DeleteBackwardWord(ta) ==
    KillRange(ta, Range(BeginningOfPreviousWord(ta.text, ta.elements, ta.cursor_pos),
                        ta.cursor_pos))

DeleteForwardWordTo(ta, end) ==
    IF end > ta.cursor_pos THEN KillRange(ta, Range(ta.cursor_pos, end)) ELSE ta

DeleteForwardWord(ta) ==
    DeleteForwardWordTo(ta, EndOfNextWord(ta.text, ta.elements, ta.cursor_pos))

KillToEndOfLineAt(ta, eol) ==
    IF ta.cursor_pos = eol
    THEN IF eol < Len(ta.text) THEN KillRange(ta, Range(ta.cursor_pos, eol + 1)) ELSE ta
    ELSE KillRange(ta, Range(ta.cursor_pos, eol))

KillToEndOfLine(ta) == KillToEndOfLineAt(ta, EndOfLine(ta.text, ta.cursor_pos))

KillToBeginningOfLineAt(ta, bol) ==
    IF ta.cursor_pos = bol
    THEN IF bol > 0 THEN KillRange(ta, Range(bol - 1, bol)) ELSE ta
    ELSE KillRange(ta, Range(bol, ta.cursor_pos))

KillToBeginningOfLine(ta) ==
    KillToBeginningOfLineAt(ta, BeginningOfLine(ta.text, ta.cursor_pos))

Yank_Consuming(ta) ==
    IF ta.kill_buffer = <<>>
    THEN ta
    ELSE [InsertStr(ta, ta.kill_buffer) EXCEPT !.kill_buffer = <<>>]
Yank(ta) == IF ta.kill_buffer = <<>> THEN ta ELSE InsertStr(ta, ta.kill_buffer)

MoveCursorLeft(ta) ==
    [ta EXCEPT !.cursor_pos = PrevAtomicBoundary(ta.text, ta.elements, @),
               !.preferred_col = None]

MoveCursorRight(ta) ==
    [ta EXCEPT !.cursor_pos = NextAtomicBoundary(ta.text, ta.elements, @),
               !.preferred_col = None]

TargetCol(ta, cur_start) ==
    IF ta.preferred_col # None
    THEN ta.preferred_col[1]
    ELSE StrWidth(ta.text, cur_start, ta.cursor_pos)

KeepPreferredCol(ta, target_col) ==
    [ta EXCEPT !.preferred_col = IF @ = None THEN Some(target_col) ELSE @]

CursorToStart(ta) == [ta EXCEPT !.cursor_pos = 0, !.preferred_col = None]

CursorToEnd(ta) == [ta EXCEPT !.cursor_pos = Len(ta.text), !.preferred_col = None]

\* The wrap-cache branches; idx is the 0-based index of the cursor's line,
\* so lines[idx] is the line before it and lines[idx + 2] the line after.
MoveUpWrapped(ta, lines, idx, target_col) ==
    IF idx > 0
    THEN MoveToDisplayColOnLine(KeepPreferredCol(ta, target_col),
             lines[idx].start, SatSub(lines[idx].end, 1), target_col)
    ELSE CursorToStart(ta)

MoveDownWrapped(ta, lines, idx, target_col) ==
    IF idx + 1 < Len(lines)
    THEN MoveToDisplayColOnLine(KeepPreferredCol(ta, target_col),
             lines[idx + 2].start, SatSub(lines[idx + 2].end, 1), target_col)
    ELSE CursorToEnd(ta)

\* The logical-line fallbacks
MoveUpLogical(ta, prev_nl, target_col) ==
    IF prev_nl # None
    THEN MoveToDisplayColOnLine(KeepPreferredCol(ta, target_col),
             BeginningOfLine(ta.text, prev_nl[1]), prev_nl[1], target_col)
    ELSE CursorToStart(ta)

MoveDownLogical(ta, next_nl, target_col) ==
    IF next_nl # None
    THEN MoveToDisplayColOnLine(KeepPreferredCol(ta, target_col),
             next_nl[1] + 1, EndOfLine(ta.text, next_nl[1] + 1), target_col)
    ELSE CursorToEnd(ta)

WrappedIndex(ta) ==
    IF ta.wrap_cache = None
    THEN None
    ELSE WrappedLineIndexByStart(ta.wrap_cache[1].lines, ta.cursor_pos)

MoveCursorUpAt(ta, idx) ==
    IF idx # None
    THEN MoveUpWrapped(ta, ta.wrap_cache[1].lines, idx[1],
             TargetCol(ta, ta.wrap_cache[1].lines[idx[1] + 1].start))
    ELSE MoveUpLogical(ta, RFindNewline(ta.text, ta.cursor_pos),
             TargetCol(ta, BeginningOfLine(ta.text, ta.cursor_pos)))

MoveCursorUp(ta) == MoveCursorUpAt(ta, WrappedIndex(ta))

MoveCursorDownAt(ta, idx) ==
    IF idx # None
    THEN MoveDownWrapped(ta, ta.wrap_cache[1].lines, idx[1],
             TargetCol(ta, ta.wrap_cache[1].lines[idx[1] + 1].start))
    ELSE MoveDownLogical(ta, FindNewline(ta.text, ta.cursor_pos),
             TargetCol(ta, BeginningOfLine(ta.text, ta.cursor_pos)))

MoveCursorDown(ta) == MoveCursorDownAt(ta, WrappedIndex(ta))

MoveCursorToBeginningOfLineAt(ta, bol, move_up_at_bol) ==
    IF move_up_at_bol /\ ta.cursor_pos = bol
    THEN SetCursorTo(ta, BeginningOfLine(ta.text, SatSub(ta.cursor_pos, 1)))
    ELSE SetCursorTo(ta, bol)

MoveCursorToBeginningOfLine(ta, move_up_at_bol) ==
    MoveCursorToBeginningOfLineAt(ta, BeginningOfLine(ta.text, ta.cursor_pos), move_up_at_bol)

MoveCursorToEndOfLineAt(ta, eol, move_down_at_eol) ==
    IF move_down_at_eol /\ ta.cursor_pos = eol
    THEN SetCursorTo(ta, EndOfLine(ta.text, Min(ta.cursor_pos + 1, Len(ta.text))))
    ELSE SetCursorTo(ta, eol)

MoveCursorToEndOfLine(ta, move_down_at_eol) ==
    MoveCursorToEndOfLineAt(ta, EndOfLine(ta.text, ta.cursor_pos), move_down_at_eol)

WithElement(ta, r) == [ta EXCEPT !.elements = AddElement(@, r)]

InsertElementAt(ta, start, s) ==
    SetCursorTo(WithElement(InsertStrAt(ta, start, s), Range(start, start + Len(s))),
                start + Len(s))

InsertElement(ta, s) ==
    InsertElementAt(ta, ClampPosForInsertion(ta.elements, ta.cursor_pos), s)

(***************************************************************************)
(* Text area: the state machine.  One action per public operation; the key *)
(* dispatch of `input` calls the same operations.  Inserted strings are    *)
(* drawn from the strings over Chars of up to MaxInsert characters and the *)
(* text is kept within MaxLen characters.                                   *)
(***************************************************************************)
MaxLen == 3

MaxInsert == 2

MaxElements == 2

MaxCount == 2

MaxWidth == 2

Strs(n) == UNION {[1..k -> Chars] : k \in 0..n}

\* history record of a call: the text area before it and its arguments
TaCall(op, before, arg, s) == [op |-> op, before |-> before, arg |-> arg, s |-> s]

NoTaCall == TaCall("none", NewTextArea, Range(0, 0), <<>>)

TextAreaInit ==
    /\ text = NewTextArea.text
    /\ cursor_pos = NewTextArea.cursor_pos
    /\ wrap_cache = NewTextArea.wrap_cache
    /\ preferred_col = NewTextArea.preferred_col
    /\ elements = NewTextArea.elements
    /\ kill_buffer = NewTextArea.kill_buffer
    /\ ta_state = 0
    /\ ta_call = NoTaCall

Self ==
    [text |-> text, cursor_pos |-> cursor_pos, wrap_cache |-> wrap_cache,
     preferred_col |-> preferred_col, elements |-> elements, kill_buffer |-> kill_buffer]

\* The text area is left as `ta`, unless that takes the text beyond MaxLen.
Assign(ta) ==
    /\ Len(ta.text) <= MaxLen
    /\ text' = ta.text
    /\ cursor_pos' = ta.cursor_pos
    /\ wrap_cache' = ta.wrap_cache
    /\ preferred_col' = ta.preferred_col
    /\ elements' = ta.elements
    /\ kill_buffer' = ta.kill_buffer
    /\ UNCHANGED <<scrollVars, animVars, trVars, restVars>>

Becomes(ta) == Assign(ta) /\ UNCHANGED <<ta_state, ta_call>>

\* the same, with the call recorded
Recorded(op, arg, s, ta) ==
    /\ Assign(ta)
    /\ ta_call' = TaCall(op, Self, arg, s)
    /\ UNCHANGED ta_state

DoSetText == \E t \in Strs(MaxLen) : Becomes(SetText(Self, t))

DoInsertStr == \E s \in Strs(MaxInsert) : Becomes(InsertStr(Self, s))

\* A position or range end beyond the text makes String::insert_str and
\* String::replace_range panic, so the callers pass none.
DoInsertStrAt ==
    \E pos \in 0..Len(text), s \in Strs(MaxInsert) :
        Becomes(InsertStrAt(Self, pos, s))

DoReplaceRange ==
    \E start \in 0..Len(text), s \in Strs(MaxInsert) :
        \E end \in start..Len(text) :
            Becomes(ReplaceRange(Self, Range(start, end), s))

DoSetCursor == \E pos \in 0..(MaxLen + 1) : Becomes(SetCursorTo(Self, pos))

\* An element is a placeholder with some text in it.
DoInsertElement ==
    /\ Len(elements) < MaxElements
    /\ \E s \in Strs(MaxInsert) \ {<<>>} : Becomes(InsertElement(Self, s))

DoDesiredHeight == \E width \in 1..MaxWidth : Becomes(WrappedLines(Self, width))

DoDeleteBackward == \E n \in 0..MaxCount : Becomes(DeleteBackward(Self, n))

DoDeleteForward == \E n \in 0..MaxCount : Becomes(DeleteForward(Self, n))

DoDeleteBackwardWord == Becomes(DeleteBackwardWord(Self))

DoDeleteForwardWord == Becomes(DeleteForwardWord(Self))

DoKillToEndOfLine == Becomes(KillToEndOfLine(Self))

DoKillToBeginningOfLine == Becomes(KillToBeginningOfLine(Self))

DoYank == Becomes(Yank(Self))

DoMoveCursorLeft == Becomes(MoveCursorLeft(Self))

DoMoveCursorRight == Becomes(MoveCursorRight(Self))

DoMoveCursorUp == Becomes(MoveCursorUp(Self))

DoMoveCursorDown == Becomes(MoveCursorDown(Self))

DoMoveCursorToBeginningOfLine ==
    \E move_up_at_bol \in BOOLEAN :
        Becomes(MoveCursorToBeginningOfLine(Self, move_up_at_bol))

DoMoveCursorToEndOfLine ==
    \E move_down_at_eol \in BOOLEAN :
        Becomes(MoveCursorToEndOfLine(Self, move_down_at_eol))

(***************************************************************************)
(* The editing operations with the call recorded, for the properties that  *)
(* relate the text area after a call to the text area before it.           *)
(***************************************************************************)
EdInsertStr ==
    \E s \in Strs(MaxInsert) :
        Recorded("insert_str", Range(cursor_pos, cursor_pos), s, InsertStr(Self, s))

EdReplaceRange ==
    \E start \in 0..Len(text), s \in Strs(MaxInsert) :
        \E end \in start..Len(text) :
            Recorded("replace_range", Range(start, end), s,
                     ReplaceRange(Self, Range(start, end), s))

EdSetCursor ==
    \E pos \in 0..(MaxLen + 1) :
        Recorded("set_cursor", Range(pos, pos), <<>>, SetCursorTo(Self, pos))

EdInsertElement ==
    /\ Len(elements) < MaxElements
    /\ \E s \in Strs(MaxInsert) :
           Recorded("insert_element", Range(cursor_pos, cursor_pos), s, InsertElement(Self, s))

EdDeleteBackward ==
    \E n \in 0..MaxCount :
        Recorded("delete_backward", Range(n, n), <<>>, DeleteBackward(Self, n))

(***************************************************************************)
(* Stateful rendering (StatefulWidgetRef::render_ref, textarea.rs:995-1005)*)
(* into an area of `width` columns and `height` >= 1 rows; the scroll      *)
(* offset is kept in the TextAreaState between the frames.                 *)
(***************************************************************************)
effective_scroll_Clamped(ta, area_height, lines, current_scroll) ==
    IF area_height >= Len(lines)
    THEN 0
    ELSE Min(current_scroll, SatSub(Len(lines), area_height))
effective_scroll_FromTop(ta, area_height, lines, current_scroll) ==
    IF area_height >= Len(lines)
    THEN 0
    ELSE LET cursor_line_idx ==
                 IF WrappedLineIndexByStart(lines, ta.cursor_pos) = None
                 THEN 0
                 ELSE WrappedLineIndexByStart(lines, ta.cursor_pos)[1]
         IN  IF cursor_line_idx >= area_height
             THEN cursor_line_idx + 1 - area_height
             ELSE 0
effective_scroll(ta, area_height, lines, current_scroll) ==
    IF area_height >= Len(lines)
    THEN 0
    ELSE LET cursor_line_idx ==
                 IF WrappedLineIndexByStart(lines, ta.cursor_pos) = None
                 THEN 0
                 ELSE WrappedLineIndexByStart(lines, ta.cursor_pos)[1]
             max_scroll == SatSub(Len(lines), area_height)
             scroll == Min(current_scroll, max_scroll)
         IN  IF cursor_line_idx < scroll
             THEN cursor_line_idx
             ELSE IF cursor_line_idx >= scroll + area_height
                  THEN cursor_line_idx + 1 - area_height
                  ELSE scroll

\* cursor_pos_with_state for an area at the origin: None, or the screen
\* column and row of the cursor (the text is ASCII: one column per byte)
cursor_pos_with_state(ta, width, height, scroll) ==
    LET lines == WrappedLines(ta, width).wrap_cache[1].lines
        s == effective_scroll(ta, height, lines, scroll)
        i == WrappedLineIndexByStart(lines, ta.cursor_pos)
    IN  IF i = None
        THEN None
        ELSE Some([col |-> ta.cursor_pos - lines[i[1] + 1].start,
                   row |-> SatSub(i[1], s)])

MaxHeight == 2

\* the text area is left as `ta` and the recorded call is forgotten
Unrecorded(ta) ==
    /\ Assign(ta)
    /\ ta_call' = NoTaCall
    /\ UNCHANGED ta_state

RenderSetText == \E t \in Strs(MaxLen) : Unrecorded(SetText(Self, t))

RenderSetCursor == \E pos \in 0..(MaxLen + 1) : Unrecorded(SetCursorTo(Self, pos))

RenderRef ==
    \E width \in 1..MaxWidth, height \in 1..MaxHeight :
        \E ta \in {WrappedLines(Self, width)} :
            /\ Assign(ta)
            /\ ta_state' = effective_scroll(ta, height, ta.wrap_cache[1].lines, ta_state)
            /\ ta_call' = TaCall("render", Self,
                                 [width |-> width, height |-> height, scroll |-> ta_state],
                                 <<>>)

(***************************************************************************)
(* Kill and yank, with a history of the kills: ta_call.s is the text the   *)
(* most recent kill removed, "kill" and "yank" say which of the two came   *)
(* last, and "stale" that another operation came after them.  set_text     *)
(* starts afresh: it empties the kill buffer (textarea.rs:69).             *)
(***************************************************************************)
KillHistory(op, was, from, s) ==
    TaCall(op, NewTextArea, [was |-> was, from |-> from], s)

Stale(c) ==
    IF c.op \in {"kill", "yank", "stale"} THEN KillHistory("stale", None, None, c.s) ELSE c

\* the text area is left as `ta` by an operation that is no kill
Other(ta) ==
    /\ Assign(ta)
    /\ ta_call' = Stale(ta_call)
    /\ UNCHANGED ta_state

\* the text area is left as `ta` by a kill; a kill that removes text leaves
\* the cursor where the text was
Killed(ta) ==
    /\ Assign(ta)
    /\ ta_call' = IF ta.text = text
                  THEN Stale(ta_call)
                  ELSE KillHistory("kill", Some(text), None,
                                   Slice(text, ta.cursor_pos,
                                         ta.cursor_pos + Len(text) - Len(ta.text)))
    /\ UNCHANGED ta_state

KillSetText == \E t \in Strs(MaxLen) : Unrecorded(SetText(Self, t))

KillSetCursor == \E pos \in 0..(MaxLen + 1) : Other(SetCursorTo(Self, pos))

KillInsertElement ==
    /\ Len(elements) < MaxElements
    /\ \E s \in Strs(MaxInsert) \ {<<>>} : Other(InsertElement(Self, s))

KillToEndOfLineCall == Killed(KillToEndOfLine(Self))

KillToBeginningOfLineCall == Killed(KillToBeginningOfLine(Self))

DeleteBackwardWordCall == Killed(DeleteBackwardWord(Self))

YankCall ==
    /\ Assign(Yank(Self))
    /\ ta_call' = KillHistory("yank",
                              IF ta_call.op = "kill" THEN ta_call.arg.was ELSE None,
                              Some([text |-> text, cursor_pos |-> cursor_pos]),
                              ta_call.s)
    /\ UNCHANGED ta_state

-----------------------------------------------------------------------------
(***************************************************************************)
(* Transcript selection (transcript_selection.rs).  A point is a wrapped   *)
(* transcript line index and a content column; the selection holds an      *)
(* optional anchor and an optional head.                                   *)
(***************************************************************************)
TRANSCRIPT_GUTTER_COLS == 2

TranscriptSelectionPoint(line_index, column) ==
    [line_index |-> line_index, column |-> column]

DefaultSelection == [anchor |-> None, head |-> None]

\* derive(Ord): by line_index, then by column
PointLe(a, b) ==
    \/ a.line_index < b.line_index
    \/ a.line_index = b.line_index /\ a.column <= b.column

ordered_endpoints_AsGiven(anchor, head) == [start |-> anchor, end |-> head]
ordered_endpoints(anchor, head) ==
    IF PointLe(anchor, head)
    THEN [start |-> anchor, end |-> head]
    ELSE [start |-> head, end |-> anchor]

Begin_KeepHead(sel, point) == [sel EXCEPT !.anchor = Some(point)]
Begin(sel, point) == [anchor |-> Some(point), head |-> None]

\* drag: the selection it leaves and the lock_scroll it returns
Drag_AnyPoint(sel, scroll, point, streaming) ==
    IF sel.anchor = None
    THEN [selection |-> sel, lock_scroll |-> FALSE]
    ELSE [selection |-> [sel EXCEPT !.head = Some(point)],
          lock_scroll |-> streaming /\ scroll = "ToBottom"]
Drag(sel, scroll, point, streaming) ==
    IF sel.anchor = None
    THEN [selection |-> sel, lock_scroll |-> FALSE]
    ELSE [selection |-> [sel EXCEPT !.head = Some(point)],
          lock_scroll |-> streaming /\ scroll = "ToBottom" /\ Some(point) # sel.anchor]

End_ClearNoHeadOnly(sel) ==
    IF sel.head = None THEN DefaultSelection ELSE sel
End(sel) ==
    IF sel.head = None \/ sel.anchor = sel.head THEN DefaultSelection ELSE sel

\* on_mouse_down, on_mouse_drag, on_mouse_up: `point` is an Option
on_mouse_down(sel, point) ==
    IF point = None THEN sel ELSE Begin(sel, point[1])

on_mouse_drag(sel, scroll, point, streaming) ==
    IF point = None
    THEN [selection |-> sel, lock_scroll |-> FALSE]
    ELSE Drag(sel, scroll, point[1], streaming)

on_mouse_up(sel) == End(sel)

(***************************************************************************)
(* The selection handlers as a state machine.  The pointer lands on one of *)
(* the points of a (MaxSelLine + 1) x (MaxSelCol + 1) grid or outside the  *)
(* transcript (None).                                                      *)
(***************************************************************************)
MaxSelLine == 1

MaxSelCol == 1

SelPoints ==
    {TranscriptSelectionPoint(l, c) : l \in 0..MaxSelLine, c \in 0..MaxSelCol}

OptionOf(S) == {None} \cup {Some(x) : x \in S}

ScrollStates == {"ToBottom", "Scrolled"}

SelCall(op, point, before, scroll, streaming, changed, lock_scroll) ==
    [op |-> op, point |-> point, before |-> before, scroll |-> scroll,
     streaming |-> streaming, changed |-> changed, lock_scroll |-> lock_scroll]

NoSelCall == SelCall("none", None, DefaultSelection, "ToBottom", FALSE, FALSE, FALSE)

TranscriptInit ==
    /\ selection = DefaultSelection
    /\ tracker = None
    /\ clock = 0
    /\ sel_call = NoSelCall
    /\ frame = None

OnMouseDown ==
    \E point \in OptionOf(SelPoints) :
        /\ selection' = on_mouse_down(selection, point)
        /\ sel_call' = SelCall("down", point, selection, "ToBottom", FALSE,
                               selection' # selection, FALSE)
        /\ UNCHANGED <<tracker, clock, frame, scrollVars, animVars, taVars, restVars>>

OnMouseDrag ==
    \E point \in OptionOf(SelPoints), scroll \in ScrollStates, streaming \in BOOLEAN :
        \E out \in {on_mouse_drag(selection, scroll, point, streaming)} :
            /\ selection' = out.selection
            /\ sel_call' = SelCall("drag", point, selection, scroll, streaming,
                                   out.selection # selection, out.lock_scroll)
            /\ UNCHANGED <<tracker, clock, frame, scrollVars, animVars, taVars, restVars>>

OnMouseUp ==
    /\ selection' = on_mouse_up(selection)
    /\ sel_call' = SelCall("up", None, selection, "ToBottom", FALSE,
                           selection' # selection, FALSE)
    /\ UNCHANGED <<tracker, clock, frame, scrollVars, animVars, taVars, restVars>>

-----------------------------------------------------------------------------
(***************************************************************************)
(* Selection highlight (App::apply_transcript_selection, app.rs:1167-1249).*)
(* The buffer is a function from the rows 0..height-1 of the transcript    *)
(* area (x = 0, y = 0, app.rs:864-869) to sequences of symbols; cell x of  *)
(* a row is row[x + 1].  The result is the set of cells <<x, y>> whose     *)
(* REVERSED modifier is toggled.                                           *)
(***************************************************************************)
U16_MAX == 65535

SatAdd16(a, b) == Min(a + b, U16_MAX)

\* first_text_x / last_text_x: the non-space cells among base_x..=max_x
TextCells(row, base_x, max_x) == {x \in base_x..max_x : row[x + 1] # " "}

\* the cells of one visible row that the selection start..end reverses
RowSelection_Padded(row, line_index, start, end, base_x, max_x) ==
    IF line_index < start.line_index \/ line_index > end.line_index
    THEN {}
    ELSE IF TextCells(row, base_x, max_x) = {}
    THEN {}
    ELSE LET line_start_col == IF line_index = start.line_index THEN start.column ELSE 0
             line_end_col == IF line_index = end.line_index
                             THEN end.column ELSE SatSub(max_x, base_x)
             row_sel_start == SatAdd16(base_x, line_start_col)
             row_sel_end == Min(SatAdd16(base_x, line_end_col), max_x)
         IN  IF row_sel_start > row_sel_end
             THEN {}
             ELSE Max(row_sel_start, base_x)..row_sel_end
RowSelection(row, line_index, start, end, base_x, max_x) ==
    IF line_index < start.line_index \/ line_index > end.line_index
    THEN {}
    ELSE IF TextCells(row, base_x, max_x) = {}
    THEN {}
    ELSE LET text_start == base_x
             text_end == MaxOf(TextCells(row, base_x, max_x))
             line_start_col == IF line_index = start.line_index THEN start.column ELSE 0
             line_end_col == IF line_index = end.line_index
                             THEN end.column ELSE SatSub(max_x, base_x)
             row_sel_start == SatAdd16(base_x, line_start_col)
             row_sel_end == Min(SatAdd16(base_x, line_end_col), max_x)
         IN  IF row_sel_start > row_sel_end
             THEN {}
             ELSE Max(row_sel_start, text_start)..Min(row_sel_end, text_end)

apply_transcript_selection(sel, total_lines, view_top, width, height, buf) ==
    IF sel.anchor = None \/ sel.head = None \/ total_lines = 0
    THEN {}
    ELSE LET base_x == SatAdd16(0, TRANSCRIPT_GUTTER_COLS)
             max_x == SatSub(width, 1)
             ends == ordered_endpoints(sel.anchor[1], sel.head[1])
             visible_end == Min(view_top + height, total_lines)
         IN  UNION {{<<x, line_index - view_top>> :
                        x \in RowSelection(buf[line_index - view_top], line_index,
                                           ends.start, ends.end, base_x, max_x)} :
                    line_index \in view_top..(visible_end - 1)}

(***************************************************************************)
(* Drawing a frame: a transcript of HlLines wrapped lines, each a gutter   *)
(* of TRANSCRIPT_GUTTER_COLS cells and HlContentCols content cells, is     *)
(* rendered from view_top into an area of `height` rows and the selection  *)
(* is painted over it (app.rs:799).                                        *)
(***************************************************************************)
HlLines == 2

HlContentCols == 3

HlWidth == TRANSCRIPT_GUTTER_COLS + HlContentCols

Symbols == {" ", "x"}

\* wrapped lines as rendered: the gutter holds a marker and a blank
HlRows == {r \in [1..HlWidth -> Symbols] : r[1] = "x" /\ r[2] = " "}

HlPoints ==
    {TranscriptSelectionPoint(l, c) : l \in 0..(HlLines - 1), c \in 0..(HlContentCols - 1)}

BlankRow == [x \in 1..HlWidth |-> " "]

Draw ==
    \E lines \in [1..HlLines -> HlRows], view_top \in 0..(HlLines - 1), height \in 1..HlLines :
        \E buf \in {[y \in 0..(height - 1) |->
                        IF view_top + y < HlLines THEN lines[view_top + y + 1] ELSE BlankRow]} :
            /\ frame' = Some([selection |-> selection,
                              view_top |-> view_top,
                              height |-> height,
                              buf |-> buf,
                              reversed |-> apply_transcript_selection(
                                  selection, HlLines, view_top, HlWidth, height, buf)])
            /\ UNCHANGED <<selection, tracker, clock, sel_call, scrollVars, animVars, taVars, restVars>>

HighlightInit ==
    /\ selection \in [anchor : OptionOf(HlPoints), head : OptionOf(HlPoints)]
    /\ tracker = None
    /\ clock = 0
    /\ sel_call = NoSelCall
    /\ frame = None

-----------------------------------------------------------------------------
(***************************************************************************)
(* Terminal (custom_terminal.rs): two buffers, of which `current` is the   *)
(* one a frame is rendered into, and a backend that any call may fail on.  *)
(* The viewport is one row; a position is a column.  A cell has a symbol,  *)
(* a background colour and a set of modifiers (the foreground colour is    *)
(* set by the same command as the background and is left out).  The symbol *)
(* "WW" is two columns wide; the screen shows its right half as ">".       *)
(***************************************************************************)
BufCells == 1

Modifiers == {"BOLD", "DIM", "ITALIC", "UNDERLINED", "SLOW_BLINK", "RAPID_BLINK",
              "REVERSED", "HIDDEN", "CROSSED_OUT"}

Cell(symbol, bg, modifier) == [symbol |-> symbol, bg |-> bg, modifier |-> modifier]

\* Cell::default(), also what Cell::reset leaves
DefaultCell == Cell(" ", "Reset", {})

\* UnicodeWidthStr::width of a cell's symbol
SymbolWidth(symbol) == IF symbol = "WW" THEN 2 ELSE 1

\* a.area.width, for the one row
AreaWidth(buffer) == Cardinality(DOMAIN buffer)

EmptyBuffer(width) == [x \in 0..(width - 1) |-> DefaultCell]

Put(x, cell) == [kind |-> "Put", x |-> x, cell |-> cell]

ClearToEnd(x, bg) == [kind |-> "ClearToEnd", x |-> x, bg |-> bg]

\* the scan of diff_buffers' first loop, from `column` on
RECURSIVE LastNonblankFrom(_, _, _, _)
LastNonblankFrom(row, bg, column, last_nonblank_column) ==
    IF column >= AreaWidth(row)
    THEN last_nonblank_column
    ELSE LastNonblankFrom(
             row, bg, column + Max(SymbolWidth(row[column].symbol), 1),
             IF \/ row[column].symbol # " "
                \/ row[column].bg # bg
                \/ row[column].modifier # {}
             THEN column + SatSub(SymbolWidth(row[column].symbol), 1)
             ELSE last_nonblank_column)

\* the first loop of diff_buffers, for the one row
LastNonblankColumn(row) == LastNonblankFrom(row, row[AreaWidth(row) - 1].bg, 0, 0)

\* the second loop of diff_buffers, from cell i on
RECURSIVE PutsFrom(_, _, _, _, _, _)
PutsFrom(previous, next, i, last_nonblank_column, invalidated, to_skip) ==
    IF i >= AreaWidth(previous)
    THEN <<>>
    ELSE (IF /\ next[i] # previous[i] \/ invalidated > 0
             /\ to_skip = 0
             /\ i <= last_nonblank_column
          THEN <<Put(i, next[i])>>
          ELSE <<>>)
         \o PutsFrom(previous, next, i + 1, last_nonblank_column,
                     SatSub(Max(Max(SymbolWidth(next[i].symbol),
                                    SymbolWidth(previous[i].symbol)),
                                invalidated), 1),
                     SatSub(SymbolWidth(next[i].symbol), 1))

diff_buffers(a, b) ==
    (IF LastNonblankColumn(b) + 1 < AreaWidth(a)
     THEN <<ClearToEnd(LastNonblankColumn(b) + 1, b[AreaWidth(a) - 1].bg)>>
     ELSE <<>>)
    \o PutsFrom(a, b, 0, LastNonblankColumn(b), 0, 0)

\* ---- what the terminal does with the commands written to it ----

\* The screen after the columns from..to-1 were written with `cells`: a wide
\* glyph that lost one of its halves shows a blank in the other.
Overwritten(screen, from, to, cells) ==
    [x \in DOMAIN screen |->
        IF from <= x /\ x < to
        THEN cells[x]
        ELSE IF x = from - 1 /\ from \in DOMAIN screen /\ screen[from].symbol = ">"
        THEN [screen[x] EXCEPT !.symbol = " "]
        ELSE IF x = to /\ screen[x].symbol = ">"
        THEN [screen[x] EXCEPT !.symbol = " "]
        ELSE screen[x]]

MoveTo(w, x) == [w EXCEPT !.cursor_pos = x]

\* Print(symbol): the glyph takes the attributes the terminal has now
Printed(w, symbol) ==
    LET from == w.cursor_pos
        to == from + SymbolWidth(symbol)
        cell == Cell(symbol, w.bg, w.modifier)
    IN  [w EXCEPT !.screen = Overwritten(@, from, to,
                                 [x \in from..(to - 1) |->
                                     IF x = from THEN cell
                                     ELSE [cell EXCEPT !.symbol = ">"]]),
                  !.cursor_pos = to]

\* Clear(UntilNewLine): blanks of the background colour the terminal has now
ClearedUntilNewLine(w) ==
    [w EXCEPT !.screen = Overwritten(@, w.cursor_pos, AreaWidth(@),
                                     [x \in w.cursor_pos..(AreaWidth(@) - 1) |->
                                         Cell(" ", w.bg, {})])]

\* SetAttribute(attribute), on the attributes the terminal has
Attributed(modifier, attribute) ==
    CASE attribute = "Reset" -> {}
      [] attribute = "NormalIntensity" -> modifier \ {"BOLD", "DIM"}
      [] attribute = "NoBlink" -> modifier \ {"SLOW_BLINK", "RAPID_BLINK"}
      [] attribute = "NoReverse" -> modifier \ {"REVERSED"}
      [] attribute = "NoItalic" -> modifier \ {"ITALIC"}
      [] attribute = "NoUnderline" -> modifier \ {"UNDERLINED"}
      [] attribute = "NotCrossedOut" -> modifier \ {"CROSSED_OUT"}
      [] attribute = "Reverse" -> modifier \cup {"REVERSED"}
      [] attribute = "Bold" -> modifier \cup {"BOLD"}
      [] attribute = "Italic" -> modifier \cup {"ITALIC"}
      [] attribute = "Underlined" -> modifier \cup {"UNDERLINED"}
      [] attribute = "Dim" -> modifier \cup {"DIM"}
      [] attribute = "CrossedOut" -> modifier \cup {"CROSSED_OUT"}
      [] attribute = "SlowBlink" -> modifier \cup {"SLOW_BLINK"}
      [] attribute = "RapidBlink" -> modifier \cup {"RAPID_BLINK"}

RECURSIVE AttributedAll(_, _)
AttributedAll(modifier, attributes) ==
    IF attributes = <<>>
    THEN modifier
    ELSE AttributedAll(Attributed(modifier, Head(attributes)), Tail(attributes))

When(cond, attributes) == IF cond THEN attributes ELSE <<>>

\* ModifierDiff::queue: the attribute commands it writes, in order
ModifierDiff_queue(from, to) ==
    LET removed == from \ to
        added == to \ from
    IN  When("REVERSED" \in removed, <<"NoReverse">>)
        \o When("BOLD" \in removed,
                <<"NormalIntensity">> \o When("DIM" \in to, <<"Dim">>))
        \o When("ITALIC" \in removed, <<"NoItalic">>)
        \o When("UNDERLINED" \in removed, <<"NoUnderline">>)
        \o When("DIM" \in removed, <<"NormalIntensity">>)
        \o When("CROSSED_OUT" \in removed, <<"NotCrossedOut">>)
        \o When("SLOW_BLINK" \in removed \/ "RAPID_BLINK" \in removed, <<"NoBlink">>)
        \o When("REVERSED" \in added, <<"Reverse">>)
        \o When("BOLD" \in added, <<"Bold">>)
        \o When("ITALIC" \in added, <<"Italic">>)
        \o When("UNDERLINED" \in added, <<"Underlined">>)
        \o When("DIM" \in added, <<"Dim">>)
        \o When("CROSSED_OUT" \in added, <<"CrossedOut">>)
        \o When("SLOW_BLINK" \in added, <<"SlowBlink">>)
        \o When("RAPID_BLINK" \in added, <<"RapidBlink">>)

\* ---- draw: its locals bg, modifier and last_pos, and the writer w ----
DrawStart(w) == [w |-> w, bg |-> "Reset", modifier |-> {}, last_pos |-> None]

\* one turn of draw's loop
Drawn(d, command) ==
    LET moved == IF d.last_pos # None /\ command.x = d.last_pos[1] + 1
                 THEN d.w
                 ELSE MoveTo(d.w, command.x)
    IN  IF command.kind = "Put"
        THEN [w |-> Printed(
                        [moved EXCEPT
                            !.modifier =
                                IF command.cell.modifier # d.modifier
                                THEN AttributedAll(@, ModifierDiff_queue(
                                                          d.modifier, command.cell.modifier))
                                ELSE @,
                            !.bg = IF command.cell.bg # d.bg THEN command.cell.bg ELSE @],
                        command.cell.symbol),
              bg |-> command.cell.bg,
              modifier |-> command.cell.modifier,
              last_pos |-> Some(command.x)]
        ELSE [w |-> ClearedUntilNewLine(
                        [moved EXCEPT !.modifier = {}, !.bg = command.bg]),
              bg |-> command.bg,
              modifier |-> {},
              last_pos |-> Some(command.x)]

RECURSIVE DrawnAll(_, _)
DrawnAll(d, commands) ==
    IF commands = <<>>
    THEN d
    ELSE DrawnAll(Drawn(d, Head(commands)), Tail(commands))

\* draw that returned Ok: all the commands, then colours and attributes reset
draw(w, commands) ==
    [DrawnAll(DrawStart(w), commands).w EXCEPT !.bg = "Reset", !.modifier = {}]

\* draw that returned an error after it wrote the first `emitted` commands
draw_failed(w, commands, emitted) ==
    DrawnAll(DrawStart(w), SubSeq(commands, 1, Min(emitted, Len(commands)))).w

Sizes == {1, 2}

\* Terminal::with_options on a backend of the size Sizes has least, that shows
\* nothing yet; the buffers have the area set_viewport_area gave them
NewTerminal(width) ==
    [buffers |-> [i \in {0, 1} |-> EmptyBuffer(width)],
     current |-> 0,
     hidden_cursor |-> FALSE,
     last_known_screen_size |-> 1,
     last_known_cursor_pos |-> 0,
     backend |-> [screen |-> EmptyBuffer(width), cursor_shown |-> TRUE,
                  cursor_pos |-> 0, bg |-> "Reset", modifier |-> {}, size |-> 1]]

\* The calls of one draw that can fail, in the order try_draw makes them.
IoCalls == {"size", "render", "draw", "hide_cursor", "show_cursor",
            "set_cursor_position", "flush"}

\* A draw under way: the terminal, the calls made so far, those of them that
\* failed, and the call whose error the `?` operator returned.
Drawing(t) == [t |-> t, calls |-> <<>>, failed |-> {}, err |-> None, swapped |-> FALSE]

Try_Ignoring(r, io, fails, done, partial) ==
    IF r.err # None
    THEN r
    ELSE IF io \in fails
         THEN [partial EXCEPT !.calls = Append(@, io),
                         !.failed = @ \cup {io}]
         ELSE [done EXCEPT !.calls = Append(@, io)]
\* `call(..)?`: nothing once an error was returned; else the call is made and
\* either fails, leaving `partial`, or succeeds, leaving `done`.
Try(r, io, fails, done, partial) ==
    IF r.err # None
    THEN r
    ELSE IF io \in fails
         THEN [partial EXCEPT !.calls = Append(@, io),
                         !.failed = @ \cup {io},
                         !.err = Some(io)]
         ELSE [done EXCEPT !.calls = Append(@, io)]

autoresize(r, fails) ==
    Try(r, "size", fails,
        [r EXCEPT !.t.last_known_screen_size = r.t.backend.size],
        r)

\* the render callback writes the frame into the current buffer, and may
\* return an error after it wrote
Rendered(r, rendered, fails) ==
    Try(r, "render", fails,
        [r EXCEPT !.t.buffers[r.t.current] = rendered],
        [r EXCEPT !.t.buffers[r.t.current] = rendered])

LastPut(updates) ==
    IF \E i \in DOMAIN updates : updates[i].kind = "Put"
    THEN Some(updates[MaxOf({i \in DOMAIN updates : updates[i].kind = "Put"})].x)
    ELSE None

\* Terminal::flush; a failing draw has written the first `emitted` commands
flush(r, fails, emitted) ==
    LET updates == diff_buffers(r.t.buffers[1 - r.t.current], r.t.buffers[r.t.current])
        pos == IF LastPut(updates) = None
               THEN r.t.last_known_cursor_pos
               ELSE LastPut(updates)[1]
    IN  Try(r, "draw", fails,
            [r EXCEPT !.t.last_known_cursor_pos = pos,
                      !.t.backend = draw(@, updates)],
            [r EXCEPT !.t.last_known_cursor_pos = pos,
                      !.t.backend = draw_failed(@, updates, emitted)])

hide_cursor(r, fails) ==
    Try(r, "hide_cursor", fails,
        [r EXCEPT !.t.backend.cursor_shown = FALSE, !.t.hidden_cursor = TRUE],
        r)

show_cursor(r, fails) ==
    Try(r, "show_cursor", fails,
        [r EXCEPT !.t.backend.cursor_shown = TRUE, !.t.hidden_cursor = FALSE],
        r)

set_cursor_position(r, position, fails) ==
    Try(r, "set_cursor_position", fails,
        [r EXCEPT !.t.backend.cursor_pos = position,
                  !.t.last_known_cursor_pos = position],
        r)

CursorUpdated(r, cursor_position, fails) ==
    IF cursor_position = None
    THEN hide_cursor(r, fails)
    ELSE set_cursor_position(show_cursor(r, fails), cursor_position[1], fails)

swap_buffers(t) ==
    [t EXCEPT !.buffers[1 - t.current] = EmptyBuffer(AreaWidth(@)),
              !.current = 1 - @]

Swapped(r) ==
    IF r.err # None
    THEN r
    ELSE [r EXCEPT !.t = swap_buffers(@), !.swapped = TRUE]

BackendFlushed(r, fails) == Try(r, "flush", fails, r, r)

\* at most so many calls of one draw fail
MaxFailures == 2

\* try_draw with a callback that renders `rendered` and asks for the cursor at
\* `cursor_position`; `fails` are the calls that fail if they are made
try_draw(t, rendered, cursor_position, fails, emitted) ==
    BackendFlushed(
        Swapped(
            CursorUpdated(
                flush(Rendered(autoresize(Drawing(t), fails), rendered, fails),
                      fails, emitted),
                cursor_position, fails)),
        fails)

NoDraw == [calls |-> <<>>, failed |-> {}, err |-> None, swapped |-> FALSE,
           cursor_position |-> None]

TerminalInit ==
    /\ terminal = NewTerminal(BufCells)
    /\ draw_call = NoDraw

\* history: what the draw d did
DrawRecord(d, cursor_position) ==
    [calls |-> d.calls, failed |-> d.failed, err |-> d.err, swapped |-> d.swapped,
     cursor_position |-> cursor_position]

\* frames of plain cells
PlainFrames == [0..(BufCells - 1) -> {Cell(s, "Reset", {}) : s \in Symbols}]

TryDraw ==
    \E rendered \in PlainFrames, cursor_position \in OptionOf(0..(BufCells - 1)),
       fails \in {f \in SUBSET IoCalls : Cardinality(f) <= MaxFailures} :
      \E emitted \in IF "draw" \in fails THEN 0..BufCells ELSE {0} :
        LET d == try_draw(terminal, rendered, cursor_position, fails, emitted)
        IN  /\ terminal' = d.t
            /\ draw_call' = DrawRecord(d, cursor_position)
            /\ UNCHANGED exceptTerminal

\* the user resizes the terminal window
BackendResized ==
    \E size \in Sizes :
        /\ size # terminal.backend.size
        /\ terminal' = [terminal EXCEPT !.backend.size = size]
        /\ draw_call' = NoDraw
        /\ UNCHANGED exceptTerminal

\* ---- the modifier delta of one Put, on its own ----
\* draw has `from` as its modifier, the terminal has these attributes, and the
\* cell to put has the modifiers `to`
ModifierInit ==
    \E from \in SUBSET Modifiers, to \in SUBSET Modifiers :
        /\ terminal = [NewTerminal(BufCells) EXCEPT !.backend.modifier = from]
        /\ draw_call = [from |-> from, to |-> to, queued |-> FALSE]

\* ModifierDiff { from, to }.queue(writer)
QueueModifierDiff ==
    /\ ~draw_call.queued
    /\ terminal' = [terminal EXCEPT
                        !.backend.modifier =
                            AttributedAll(@, ModifierDiff_queue(draw_call.from,
                                                                draw_call.to))]
    /\ draw_call' = [draw_call EXCEPT !.queued = TRUE]
    /\ UNCHANGED exceptTerminal

\* ---- frames with wide glyphs, colours and modifiers, on a wider row ----
ScreenCols == 3

\* the cells a frame is made of: a blank, a letter, a styled letter and a
\* wide glyph
ScreenCells == {DefaultCell, Cell("a", "Reset", {}), Cell("a", "Blue", {"BOLD"}),
               Cell("WW", "Reset", {})}

\* Buffer::set_stringn writes a wide glyph only where both its columns fit and
\* resets the cell its right half covers
WellFormedFrame(b) ==
    \A x \in DOMAIN b :
        SymbolWidth(b[x].symbol) = 2 =>
            /\ x + 1 \in DOMAIN b
            /\ b[x + 1] = DefaultCell

ScreenFrames == {b \in [0..(ScreenCols - 1) -> ScreenCells] : WellFormedFrame(b)}

\* the ways a draw of these frames fails: nowhere, while it writes the draw
\* commands, at the cursor update after them, or at the last flush
ScreenFailures == {{}, {"draw"}, {"hide_cursor"}, {"flush"}}

\* at most so many draws are aborted
MaxAborted == 1

ScreenInit ==
    /\ terminal = NewTerminal(ScreenCols)
    /\ draw_call = NoDraw @@ [aborted |-> 0]

\* one call of try_draw with such a frame, the cursor hidden
DrawFrame ==
    \E rendered \in ScreenFrames, fails \in ScreenFailures :
      \E emitted \in IF "draw" \in fails THEN 0..ScreenCols ELSE {0} :
        LET d == try_draw(terminal, rendered, None, fails, emitted)
        IN  /\ fails # {} => draw_call.aborted < MaxAborted
            /\ terminal' = d.t
            /\ draw_call' = DrawRecord(d, None) @@
                   [aborted |-> draw_call.aborted + IF d.err = None THEN 0 ELSE 1]
            /\ UNCHANGED exceptTerminal

-----------------------------------------------------------------------------
(***************************************************************************)
(* Clipboard reconstruction (transcript_copy.rs).  A rendered line is its  *)
(* flat text with the gutter, `code` when its foreground is cyan; every    *)
(* character is one column wide and a line is one span without inline     *)
(* code.  The text built is a sequence of characters, with "\n" between    *)
(* the lines; `fences` is a history of the fences pushed into it.          *)
(***************************************************************************)
order_points(a, b) ==
    IF (b.line_index < a.line_index) \/ (b.line_index = a.line_index /\ b.column < a.column)
    THEN [start |-> b, end |-> a]
    ELSE [start |-> a, end |-> b]

last_non_space_col(flat) ==
    IF \E i \in DOMAIN flat : flat[i] # " "
    THEN Some(MaxOf({i \in DOMAIN flat : flat[i] # " "}) - 1)
    ELSE None

\* the half-open range of `flat` that the columns start_col..=end_col cover
byte_range_for_cols(flat, start_col, end_col) ==
    IF start_col < Len(flat) /\ Min(end_col + 1, Len(flat)) >= start_col
    THEN Some(Range(start_col, Min(end_col + 1, Len(flat))))
    ELSE None

slice_line_by_cols(flat, start_col, end_col) ==
    IF byte_range_for_cols(flat, start_col, end_col) = None
    THEN <<>>
    ELSE Slice(flat, byte_range_for_cols(flat, start_col, end_col)[1].start,
               byte_range_for_cols(flat, start_col, end_col)[1].end)

\* a line of one span that is no inline code reads as its flat text
line_to_markdown(flat, is_code_block) == flat

\* the three backquotes of a fence, each written as "'"
Fence == <<"'", "'", "'">>

EndsWithNewline(out) == out # <<>> /\ out[Len(out)] = "\n"

FenceAt(kind, at) == [kind |-> kind, at |-> at]

\* the fence that opens or closes a code run before a line, lines 217-233
FenceBefore(st, is_code_block_line, line_index) ==
    IF is_code_block_line /\ ~st.in_code_run
    THEN [st EXCEPT !.out = (IF st.wrote_any THEN @ \o <<"\n">> ELSE @)
                            \o Fence \o <<"\n">>,
                    !.in_code_run = TRUE,
                    !.prev_selected_line = None,
                    !.wrote_any = TRUE,
                    !.fences = Append(@, FenceAt("open", line_index))]
    ELSE IF ~is_code_block_line /\ st.in_code_run
         THEN [st EXCEPT !.out = @ \o <<"\n">> \o Fence \o <<"\n">>,
                         !.in_code_run = FALSE,
                         !.prev_selected_line = None,
                         !.wrote_any = TRUE,
                         !.fences = Append(@, FenceAt("close", line_index))]
         ELSE st

\* the line's text pushed after the separator that belongs before it,
\* lines 237-264
LinePushed(st, line_index, line_text, joiner) ==
    [st EXCEPT !.out =
                   (IF st.in_code_run
                    THEN IF st.wrote_any
                            /\ (~EndsWithNewline(@) \/ st.prev_selected_line # None)
                         THEN @ \o <<"\n">>
                         ELSE @
                    ELSE IF st.wrote_any
                         THEN IF st.prev_selected_line = Some(SatSub(line_index, 1))
                                 /\ joiner # None
                              THEN @ \o joiner[1]
                              ELSE @ \o <<"\n">>
                         ELSE @)
                   \o line_text,
               !.prev_selected_line = Some(line_index),
               !.wrote_any = TRUE]

\* the body of the loop for a line in the selection's line range
CopyLine(a, line_index, st) ==
    LET line == a.lines[line_index + 1]
        base_x == TRANSCRIPT_GUTTER_COLS
        max_x == SatSub(a.width, 1)
        text_end == IF last_non_space_col(line.flat) = None \/ line.code
                    THEN last_non_space_col(line.flat)
                    ELSE Some(Min(last_non_space_col(line.flat)[1], max_x))
        line_start_col == IF line_index = a.start.line_index THEN a.start.column ELSE 0
        line_end_col == IF line_index = a.end.line_index
                        THEN a.end.column
                        ELSE SatSub(max_x, base_x)
        row_sel_start == Min(SatAdd16(base_x, line_start_col), max_x)
        row_sel_end == IF line.code /\ line_end_col >= SatSub(max_x, base_x)
                       THEN U16_MAX
                       ELSE Min(SatAdd16(base_x, line_end_col), max_x)
        selected_line ==
            IF text_end = None \/ Max(row_sel_start, base_x) > Min(row_sel_end, text_end[1])
            THEN <<>>
            ELSE slice_line_by_cols(line.flat, Max(row_sel_start, base_x),
                                    Min(row_sel_end, text_end[1]))
        joiner == IF line_index < Len(a.joiner_before)
                  THEN a.joiner_before[line_index + 1]
                  ELSE None
    IN  IF row_sel_start > row_sel_end
        THEN st
        ELSE LinePushed(FenceBefore(st, line.code, line_index), line_index,
                        line_to_markdown(selected_line, line.code), joiner)

\* the loop over visible_start..visible_end, from line_index on; `none` is
\* the `?` of lines.get(line_index)
RECURSIVE CopyLoop(_, _, _)
CopyLoop(a, line_index, st) ==
    IF line_index >= a.visible_end
    THEN st
    ELSE IF line_index < a.start.line_index \/ line_index > a.end.line_index
         THEN CopyLoop(a, line_index + 1, st)
         ELSE IF line_index >= Len(a.lines)
              THEN [st EXCEPT !.none = TRUE]
              ELSE CopyLoop(a, line_index + 1, CopyLine(a, line_index, st))

CopyStart ==
    [out |-> <<>>, prev_selected_line |-> None, in_code_run |-> FALSE,
     wrote_any |-> FALSE, fences |-> <<>>, none |-> FALSE]

NoText == [text |-> None, fences |-> <<>>]

\* the end of selection_to_copy_text, lines 267-272
CopyEnd_Unclosed(st) ==
    IF st.none
    THEN NoText
    ELSE [text |-> IF st.out = <<>> THEN None ELSE Some(st.out), fences |-> st.fences]
CopyEnd(st) ==
    IF st.none
    THEN NoText
    ELSE IF st.in_code_run
         THEN [text |-> Some(st.out \o <<"\n">> \o Fence),
               fences |-> Append(st.fences, FenceAt("close", "end"))]
         ELSE [text |-> IF st.out = <<>> THEN None ELSE Some(st.out),
               fences |-> st.fences]

selection_to_copy_text(lines, joiner_before, start, end, visible_start, visible_end, width) ==
    IF width <= TRANSCRIPT_GUTTER_COLS \/ start = end
    THEN NoText
    ELSE CopyEnd(CopyLoop([lines |-> lines, joiner_before |-> joiner_before,
                           start |-> order_points(start, end).start,
                           end |-> order_points(start, end).end,
                           visible_end |-> visible_end, width |-> width],
                          visible_start, CopyStart))

\* the columns of a line on the screen
CopyWidth == 4

\* at most so many rendered lines
CopyLines == 3

\* the rendered lines: blank, short, with a bullet in the gutter, and a line
\* longer than the screen is wide
FlatLines ==
    {<<" ", " ">>, <<" ", " ", "c">>, <<"*", " ", "c", "c">>, <<" ", " ", "c", "c", "c">>}

RenderedLines == [code : BOOLEAN, flat : FlatLines]

CopyPoints ==
    {TranscriptSelectionPoint(l, c) : l \in 0..(CopyLines - 1),
                                      c \in 0..(CopyWidth - TRANSCRIPT_GUTTER_COLS - 1)}

\* what selection_to_copy_text_for_cells passes: the wrapped lines of the whole
\* transcript with their joiners, a code line having none
CopyInputs(n) ==
    [lines : [1..n -> RenderedLines],
     joiner_before : [1..n -> {None, Some(<<" ">>)}],
     start : CopyPoints, end : CopyPoints]

WellFormedCopyInput(i) ==
    \A k \in DOMAIN i.lines : i.lines[k].code => i.joiner_before[k] = None

NoCopy == [done |-> FALSE, text |-> None, fences |-> <<>>]

CopyInit ==
    /\ copy_in = [lines |-> <<>>, joiner_before |-> <<>>,
                  start |-> TranscriptSelectionPoint(0, 0),
                  end |-> TranscriptSelectionPoint(0, 0)]
    /\ copy_out = NoCopy

CopyInitWithInputs ==
    /\ \E n \in 1..CopyLines :
           \E i \in CopyInputs(n) : WellFormedCopyInput(i) /\ copy_in = i
    /\ copy_out = NoCopy

\* selection_to_copy_text_for_cells from its third line on
CopySelection ==
    /\ ~copy_out.done
    /\ Len(copy_in.lines) # 0
    /\ copy_out' =
           [done |-> TRUE] @@
           selection_to_copy_text(copy_in.lines, copy_in.joiner_before,
                                  copy_in.start, copy_in.end,
                                  0, Len(copy_in.lines), CopyWidth)
    /\ UNCHANGED <<copy_in, exceptCopy>>

-----------------------------------------------------------------------------
(***************************************************************************)
(* Skills (core/src/skills).  A skill name is a number, compared as the    *)
(* names compare; a path is the tuple of the scope's number, the working   *)
(* directory of a repository root (0 otherwise) and the number of the      *)
(* SKILL.md file under the root.  A root directory is the sequence of the  *)
(* names of its SKILL.md files, all at one depth; fs::read_dir yields them *)
(* in the order `walk` of the disk; every file parses.                     *)
(***************************************************************************)
MaxSkillNames == 2

MaxSkillFiles == 2

NumCwds == 2

SkillNames == 1..MaxSkillNames

Cwds == 1..NumCwds

\* SkillScope, in the order skill_roots_for_cwd documents
SkillScopes == <<"Repo", "User", "System", "Admin">>

ScopeNumber(scope) == CHOOSE i \in 1..Len(SkillScopes) : SkillScopes[i] = scope

SkillMetadata(name, path, scope) == [name |-> name, path |-> path, scope |-> scope]

SkillRoot(path, scope) == [path |-> path, scope |-> scope]

\* SkillLoadOutcome::default(), skills only
EmptyOutcome == [skills |-> <<>>]

\* the SKILL.md files of the directory at a root path, None if there is no
\* such directory
SkillFilesAt(disk, path) ==
    IF path[1] = ScopeNumber("Repo") THEN disk.repo[path[2]]
    ELSE IF path[1] = ScopeNumber("User") THEN Some(disk.user)
    ELSE IF path[1] = ScopeNumber("System") THEN Some(disk.system)
    ELSE Some(disk.admin)

\* the order in which the walk comes upon the n files of a directory
WalkOrder(disk, n) == SelectSeq(disk.walk, LAMBDA i : i <= n)

discover_skills_under_root(disk, root, scope, outcome) ==
    IF SkillFilesAt(disk, root) = None
    THEN outcome
    ELSE LET files == SkillFilesAt(disk, root)[1]
             found == WalkOrder(disk, Len(files))
         IN  [outcome EXCEPT !.skills =
                  @ \o [k \in 1..Len(files) |->
                           SkillMetadata(files[found[k]], Append(root, found[k]), scope)]]

repo_skills_root(disk, cwd) ==
    IF disk.repo[cwd] # None
    THEN Some(SkillRoot(<<ScopeNumber("Repo"), cwd>>, "Repo"))
    ELSE None

user_skills_root == SkillRoot(<<ScopeNumber("User"), 0>>, "User")

system_skills_root == SkillRoot(<<ScopeNumber("System"), 0>>, "System")

admin_skills_root == SkillRoot(<<ScopeNumber("Admin"), 0>>, "Admin")

skill_roots_for_cwd_UserFirst(disk, cwd) ==
    <<user_skills_root>>
    \o repo_skills_root(disk, cwd)
    \o <<system_skills_root>>
    \o (IF disk.unix THEN <<admin_skills_root>> ELSE <<>>)
skill_roots_for_cwd(disk, cwd) ==
    repo_skills_root(disk, cwd)
    \o <<user_skills_root, system_skills_root>>
    \o (IF disk.unix THEN <<admin_skills_root>> ELSE <<>>)

RECURSIVE DiscoverAll(_, _, _)
DiscoverAll(disk, roots, outcome) ==
    IF roots = <<>>
    THEN outcome
    ELSE DiscoverAll(disk, Tail(roots),
                     discover_skills_under_root(disk, Head(roots).path,
                                                Head(roots).scope, outcome))

\* Vec::retain with seen.insert(name) as the test
RECURSIVE RetainUnseen(_, _)
RetainUnseen(skills, seen_names) ==
    IF skills = <<>>
    THEN <<>>
    ELSE IF Head(skills).name \in seen_names
         THEN RetainUnseen(Tail(skills), seen_names)
         ELSE <<Head(skills)>>
              \o RetainUnseen(Tail(skills), seen_names \cup {Head(skills).name})

Cmp(a, b) == IF a < b THEN -1 ELSE IF a > b THEN 1 ELSE 0

RECURSIVE PathCmp(_, _)
PathCmp(p, q) ==
    IF p = <<>> \/ q = <<>>
    THEN Cmp(Len(p), Len(q))
    ELSE IF Cmp(Head(p), Head(q)) # 0
         THEN Cmp(Head(p), Head(q))
         ELSE PathCmp(Tail(p), Tail(q))

\* a.name.cmp(&b.name).then_with(|| a.path.cmp(&b.path))
SkillCmp(a, b) ==
    IF Cmp(a.name, b.name) # 0 THEN Cmp(a.name, b.name) ELSE PathCmp(a.path, b.path)

\* sort_by is stable: e goes behind the elements it does not precede
RECURSIVE InsertSkill(_, _)
InsertSkill(sorted, e) ==
    IF sorted = <<>>
    THEN <<e>>
    ELSE IF SkillCmp(e, Head(sorted)) < 0
         THEN <<e>> \o sorted
         ELSE <<Head(sorted)>> \o InsertSkill(Tail(sorted), e)

RECURSIVE SortSkills(_)
SortSkills(skills) ==
    IF skills = <<>>
    THEN <<>>
    ELSE InsertSkill(SortSkills(SubSeq(skills, 1, Len(skills) - 1)), skills[Len(skills)])

load_skills_from_roots(disk, roots) ==
    [skills |-> SortSkills(RetainUnseen(DiscoverAll(disk, roots, EmptyOutcome).skills, {}))]

SkillFiles ==
    UNION {[1..n -> SkillNames] : n \in 0..MaxSkillFiles}

\* read_dir yielding the files in the order of their numbers
IdentityWalk == [i \in 1..MaxSkillFiles |-> i]

\* every order read_dir may yield them in
Walks ==
    {w \in [1..MaxSkillFiles -> 1..MaxSkillFiles] :
         \A i, j \in 1..MaxSkillFiles : w[i] = w[j] => i = j}

\* the first working directory may be in a repository with skills, the
\* others are not
DisksWalked(walks) ==
    [repo : {[c \in Cwds |-> IF c = 1 THEN r ELSE None] : r \in OptionOf(SkillFiles)},
     user : SkillFiles, system : SkillFiles, admin : SkillFiles, unix : BOOLEAN,
     walk : walks]

LoadDisks == DisksWalked({IdentityWalk})

NoSkillsCall == [op |-> "none"]

EmptyDisk ==
    [repo |-> [c \in Cwds |-> None], user |-> <<>>, system |-> <<>>, admin |-> <<>>,
     unix |-> TRUE, walk |-> IdentityWalk]

\* load_skills (loader.rs:136-138) for a config with this cwd
LoadSkills ==
    \E cwd \in Cwds :
        /\ sk_call' = [op |-> "load_skills", cwd |-> cwd,
                       outcome |-> load_skills_from_roots(
                                       sk_disk, skill_roots_for_cwd(sk_disk, cwd))]
        /\ UNCHANGED <<sk_disk, cache_by_cwd, sk_threads, sk_inj, exceptSkills>>

(***************************************************************************)
(* SkillsManager (manager.rs).  A call reads the cache under the read lock *)
(* and, when it has to load, walks the disk and takes the write lock later *)
(* to insert what it loaded: two steps, between which the other threads    *)
(* run and the disk changes.                                               *)
(***************************************************************************)
NumThreads == 2

ManagerThreads == 1..NumThreads

\* lines 87-101: the cached outcome returned, or the outcome loaded
skills_for_cwd_with_options_AlwaysLoad(cache, disk, cwd, force_reload) ==
    [loaded |-> TRUE,
     outcome |-> load_skills_from_roots(disk, skill_roots_for_cwd(disk, cwd))]
skills_for_cwd_with_options(cache, disk, cwd, force_reload) ==
    LET cached == cache[cwd]
    IN  IF ~force_reload /\ cached # None
        THEN [loaded |-> FALSE, outcome |-> cached[1]]
        ELSE [loaded |-> TRUE,
              outcome |-> load_skills_from_roots(disk, skill_roots_for_cwd(disk, cwd))]

\* the disks the manager runs on: one skill name, in the repository of the
\* first working directory and in the user's directory
ManagerDisks ==
    {d \in LoadDisks : /\ d.repo[1] \in {None, Some(<<1>>)}
                       /\ d.user \in {<<>>, <<1>>}
                       /\ d.system = <<>> /\ d.admin = <<>> /\ d.unix}

\* the threads that loaded the skills of cwd and have yet to insert them
Loading(cwd) == {u \in ManagerThreads : sk_threads[u] # None /\ sk_threads[u][1].cwd = cwd}

\* lines 82-101.  History: `force_reload` is the call's flag, `before` the
\* threads whose load for this cwd came before this one and is not inserted
\* yet, `stale` whether a force_reload call that loaded later has returned.
SkillsForCwd(t, cwd, force_reload) ==
    LET r == skills_for_cwd_with_options(cache_by_cwd, sk_disk, cwd, force_reload)
    IN  /\ sk_threads[t] = None
        /\ sk_threads' = [sk_threads EXCEPT ![t] =
                              IF r.loaded
                              THEN Some([cwd |-> cwd, outcome |-> r.outcome,
                                         force_reload |-> force_reload,
                                         before |-> Loading(cwd), stale |-> FALSE])
                              ELSE None]
        /\ sk_call' = [op |-> "skills_for_cwd", thread |-> t, cwd |-> cwd,
                       force_reload |-> force_reload, cached |-> cache_by_cwd[cwd],
                       loaded |-> r.loaded,
                       returned |-> IF r.loaded THEN None ELSE Some(r.outcome)]
        /\ UNCHANGED <<sk_disk, cache_by_cwd, sk_inj, exceptSkills>>

\* lines 105-115, after which the call returns
CacheInsert(t) ==
    /\ sk_threads[t] # None
    /\ cache_by_cwd' = [cache_by_cwd EXCEPT ![sk_threads[t][1].cwd] =
                            Some(sk_threads[t][1].outcome)]
    /\ sk_threads' =
           [u \in ManagerThreads |->
               IF u = t \/ sk_threads[u] = None
               THEN None
               ELSE Some([sk_threads[u][1] EXCEPT
                             !.before = @ \ {t},
                             !.stale = @ \/ (/\ sk_threads[t][1].force_reload
                                             /\ u \in sk_threads[t][1].before)])]
    /\ sk_call' = [op |-> "insert", thread |-> t, cwd |-> sk_threads[t][1].cwd,
                   returned |-> Some(sk_threads[t][1].outcome),
                   replaced |-> cache_by_cwd[sk_threads[t][1].cwd],
                   stale |-> sk_threads[t][1].stale]
    /\ UNCHANGED <<sk_disk, sk_inj, exceptSkills>>

\* skills are added to and removed from the directories
DiskChanged ==
    /\ sk_disk' \in ManagerDisks \ {sk_disk}
    /\ UNCHANGED <<cache_by_cwd, sk_threads, sk_call, sk_inj, exceptSkills>>

ManagerCall ==
    \E t \in ManagerThreads, cwd \in Cwds, force_reload \in BOOLEAN :
        SkillsForCwd(t, cwd, force_reload)

ManagerInsert == \E t \in ManagerThreads : CacheInsert(t)

(***************************************************************************)
(* System skills (system.rs).  The disk holds the system root, the         *)
(* embedded files extracted under it and the marker file in it.  A file is *)
(* absent, written with what this binary embeds, written by an older       *)
(* binary ("old") or cut short by a failed write ("partial"); the marker   *)
(* reads as this binary's fingerprint ("current"), an older one ("old") or *)
(* a piece of one ("partial").  One installation runs at a time; any of    *)
(* its IO calls may fail, or the process may be stopped in it.             *)
(***************************************************************************)
NumEmbedded == 3

EmbeddedFiles == 1..NumEmbedded

FreshSystemDisk ==
    [root |-> "absent", files |-> [f \in EmbeddedFiles |-> "absent"], marker |-> "absent"]

\* what a complete installation by an older binary left
OldSystemDisk ==
    [root |-> "dir", files |-> [f \in EmbeddedFiles |-> "old"], marker |-> "old"]

NoInstall == [op |-> "none"]

\* The course of one run: whether reading the marker fails, the action that
\* fails or at which the process stops ("none": no failure), and what the
\* failing call had done by then: the entries remove_dir_all had removed, the
\* files write_embedded_dir had written and whether the next one was cut
\* short, and how the write of the marker left it.
InstallRuns ==
    [read_fails : BOOLEAN,
     fails_at : {"none", "create skills root dir", "remove existing system skills dir",
                 "create system skills dir", "write system skill file",
                 "write system skills marker"},
     removed : [files : SUBSET EmbeddedFiles, marker : BOOLEAN],
     written : 0..(NumEmbedded - 1),
     torn : BOOLEAN,
     marker_left : {"absent", "partial", "current"}]

\* the fields a run does not use are left at one value
UsedOnly(io) ==
    /\ io.fails_at # "remove existing system skills dir" =>
           io.removed = [files |-> {}, marker |-> FALSE]
    /\ io.fails_at # "write system skill file" => io.written = 0 /\ ~io.torn
    /\ io.fails_at # "write system skills marker" => io.marker_left = "absent"

\* read_marker(..).is_ok_and(|marker| marker == expected_fingerprint)
MarkerIsExpected(disk, io) == ~io.read_fails /\ disk.marker = "current"

InstallResult(disk, err, skipped) == [disk |-> disk, err |-> err, skipped |-> skipped]

\* fs::remove_dir_all(dest_system), lines 128-131
remove_dir_all(disk, io) ==
    IF io.fails_at = "remove existing system skills dir"
    THEN [disk EXCEPT
             !.files = [f \in EmbeddedFiles |->
                           IF f \in io.removed.files THEN "absent" ELSE @[f]],
             !.marker = IF io.removed.marker THEN "absent" ELSE @]
    ELSE FreshSystemDisk

\* write_embedded_dir, lines 202-241: the files in the order of dir.entries()
write_embedded_dir(disk, io) ==
    IF io.fails_at = "create system skills dir"
    THEN disk
    ELSE IF io.fails_at = "write system skill file"
    THEN [disk EXCEPT
             !.root = "dir",
             !.files = [f \in EmbeddedFiles |->
                           IF f <= io.written THEN "written"
                           ELSE IF f = io.written + 1 /\ io.torn THEN "partial"
                           ELSE @[f]]]
    ELSE [disk EXCEPT !.root = "dir",
                      !.files = [f \in EmbeddedFiles |-> "written"]]

\* fs::write(marker_path, ..), lines 137-138
WriteMarker(disk, io) ==
    IF io.fails_at = "write system skills marker"
    THEN [disk EXCEPT !.marker = IF io.marker_left = "absent" THEN @ ELSE io.marker_left]
    ELSE [disk EXCEPT !.marker = "current"]

Failed(io, actions) == IF io.fails_at \in actions THEN Some(io.fails_at) ELSE None

\* lines 128-141, once the installation was found out of date
Reinstalled(disk, io) ==
    LET removed == IF disk.root = "dir" THEN remove_dir_all(disk, io) ELSE disk
        extracted == write_embedded_dir(removed, io)
    IN  IF disk.root = "dir" /\ io.fails_at = "remove existing system skills dir"
        THEN InstallResult(removed, Some(io.fails_at), FALSE)
        ELSE IF io.fails_at \in {"create system skills dir", "write system skill file"}
        THEN InstallResult(extracted, Some(io.fails_at), FALSE)
        ELSE InstallResult(WriteMarker(extracted, io),
                           Failed(io, {"write system skills marker"}), FALSE)

\* install_system_skills, lines 92-141
install_system_skills(disk, io) ==
    IF io.fails_at = "create skills root dir"
    THEN InstallResult(disk, Some(io.fails_at), FALSE)
    ELSE IF disk.root = "dir" /\ MarkerIsExpected(disk, io)
    THEN InstallResult(disk, None, TRUE)
    ELSE Reinstalled(disk, io)

\* SkillsManager::new (manager.rs:51-65) at a start-up
InstallSystemSkills ==
    \E io \in InstallRuns :
        /\ UsedOnly(io)
        /\ LET r == install_system_skills(sk_system.disk, io)
           IN  sk_system' = [disk |-> r.disk,
                             run |-> [op |-> "install", io |-> io, err |-> r.err,
                                      skipped |-> r.skipped,
                                      before |-> sk_system.disk]]
        /\ UNCHANGED exceptSystem

(***************************************************************************)
(* Skill injection (injection.rs).  A UserInput is a skill reference or    *)
(* something else; reading the file at a path succeeds for the paths in    *)
(* readable.                                                               *)
(***************************************************************************)
MaxInputs == 3

UserInputSkill(name, path) == [kind |-> "Skill", name |-> name, path |-> path]

UserInputText == [kind |-> "Text"]

\* skills.iter().find(|s| s.name == *name && s.path == *path)
FindSkill(skills, name, path) ==
    LET found == {k \in 1..Len(skills) : skills[k].name = name /\ skills[k].path = path}
    IN  IF found = {}
        THEN None
        ELSE Some(skills[CHOOSE k \in found : \A j \in found : k <= j])

\* the body of the loop, lines 138-143: the if-let chain tests the pattern,
\* then seen.insert, then find
MentionStep_SeenOnMatch(st, input, skills) ==
    IF input.kind = "Skill" /\ input.name \notin st.seen_names
       /\ FindSkill(skills, input.name, input.path) # None
    THEN [selected |-> st.selected \o FindSkill(skills, input.name, input.path),
          seen_names |-> st.seen_names \cup {input.name}]
    ELSE st
MentionStep(st, input, skills) ==
    IF input.kind # "Skill"
    THEN st
    ELSE IF input.name \in st.seen_names
         THEN st
         ELSE [selected |-> st.selected \o FindSkill(skills, input.name, input.path),
               seen_names |-> st.seen_names \cup {input.name}]

RECURSIVE MentionLoop(_, _, _)
MentionLoop(st, inputs, skills) ==
    IF inputs = <<>>
    THEN st
    ELSE MentionLoop(MentionStep(st, Head(inputs), skills), Tail(inputs), skills)

collect_explicit_skill_mentions(inputs, skills) ==
    MentionLoop([selected |-> <<>>, seen_names |-> {}], inputs, skills).selected

SkillInstructions(skill) == [name |-> skill.name, path |-> skill.path]

\* the loop of lines 85-111; attempts are the skills whose file it reads
RECURSIVE ReadMentioned(_, _, _)
ReadMentioned(mentioned_skills, readable, result) ==
    IF mentioned_skills = <<>>
    THEN result
    ELSE LET skill == Head(mentioned_skills)
         IN  ReadMentioned(
                 Tail(mentioned_skills), readable,
                 IF skill.path \in readable
                 THEN [result EXCEPT !.items = Append(@, SkillInstructions(skill)),
                                     !.attempts = Append(@, skill)]
                 ELSE [result EXCEPT !.warnings = Append(@, SkillInstructions(skill)),
                                     !.attempts = Append(@, skill)])

DefaultInjections == [items |-> <<>>, warnings |-> <<>>, attempts |-> <<>>]

build_skill_injections(inputs, skills, readable) ==
    IF inputs = <<>> \/ skills = None
    THEN DefaultInjections
    ELSE ReadMentioned(collect_explicit_skill_mentions(inputs, skills[1].skills),
                       readable, DefaultInjections)

\* two places a SKILL.md file is at
InjectionPaths == {<<ScopeNumber("User"), 0, k>> : k \in 1..MaxSkillFiles}

UserInputs ==
    {UserInputText} \cup {UserInputSkill(n, p) : n \in SkillNames, p \in InjectionPaths}

\* outcomes as load_skills_from_roots returns them: sorted, one skill a name
InjectionOutcomes ==
    {load_skills_from_roots(d, <<user_skills_root>>) :
         d \in {e \in LoadDisks : /\ e.repo[1] = None /\ e.system = <<>>
                                  /\ e.admin = <<>> /\ e.unix}}

InjectionInputs ==
    [inputs : UNION {[1..n -> UserInputs] : n \in 0..MaxInputs},
     skills : OptionOf(InjectionOutcomes),
     readable : SUBSET InjectionPaths]

BuildSkillInjections ==
    /\ ~sk_inj.done
    /\ sk_inj' = [sk_inj EXCEPT
                      !.done = TRUE,
                      !.out = build_skill_injections(
                                  sk_inj.inputs, sk_inj.skills, sk_inj.readable)]
    /\ UNCHANGED <<sk_disk, cache_by_cwd, sk_threads, sk_call, exceptSkills>>

ManagerInitWith(disks) ==
    /\ sk_disk \in disks
    /\ cache_by_cwd = [c \in Cwds |-> None]
    /\ sk_threads = [t \in ManagerThreads |-> None]
    /\ sk_call = NoSkillsCall

SkillsInitWith(disks) ==
    /\ ManagerInitWith(disks)
    /\ sk_system = [disk |-> FreshSystemDisk, run |-> NoInstall]

NoInjectionInputs ==
    [inputs |-> <<>>, skills |-> None, readable |-> {}, done |-> FALSE,
     out |-> DefaultInjections]

SkillsInit ==
    /\ SkillsInitWith({EmptyDisk})
    /\ sk_inj = NoInjectionInputs

RestInit == TerminalInit /\ CopyInit /\ SkillsInit

-----------------------------------------------------------------------------
(***************************************************************************)
(* Multi-click selection (transcript_multi_click.rs).  A rendered line is  *)
(* a sequence of one-column characters, the transcript gutter included; a  *)
(* history cell is its display lines and its is_stream_continuation flag.  *)
(***************************************************************************)
MAX_DELAY == 650

MAX_COLUMN_DISTANCE == 4

U8_MAX == 255

AbsDiff(a, b) == IF a >= b THEN a - b ELSE b - a

max_column_distance(prev_click_count) ==
    IF prev_click_count \in {0, 1} THEN MAX_COLUMN_DISTANCE
    ELSE IF prev_click_count = 2 THEN Min(MAX_COLUMN_DISTANCE * 2, U16_MAX)
    ELSE U16_MAX

\* register_click: the Click stored in last_click; its click_count is returned
register_click_AnyColumn(last_click, point, now) ==
    [point |-> point,
     click_count |->
         IF /\ last_click # None
            /\ Max(now - last_click[1].at, 0) <= MAX_DELAY
            /\ last_click[1].point.line_index = point.line_index
         THEN Min(last_click[1].click_count + 1, U8_MAX)
         ELSE 1,
     at |-> now]
register_click(last_click, point, now) ==
    [point |-> point,
     click_count |->
         IF /\ last_click # None
            /\ Max(now - last_click[1].at, 0) <= MAX_DELAY
            /\ last_click[1].point.line_index = point.line_index
            /\ AbsDiff(last_click[1].point.column, point.column)
                   <= max_column_distance(last_click[1].click_count)
         THEN Min(last_click[1].click_count + 1, U8_MAX)
         ELSE 1,
     at |-> now]

\* TranscriptMultiClick::on_mouse_drag: the tracker it leaves
multi_click_on_mouse_drag_SameLineOnly(last_click, sel, point) ==
    IF sel.anchor = None \/ point = None
    THEN last_click
    ELSE IF AbsDiff(point[1].column, sel.anchor[1].column) > MAX_COLUMN_DISTANCE
         THEN None
         ELSE last_click
multi_click_on_mouse_drag(last_click, sel, point) ==
    IF sel.anchor = None \/ point = None
    THEN last_click
    ELSE LET moved_to_other_wrapped_line ==
                 point[1].line_index # sel.anchor[1].line_index
             moved_far_enough_horizontally ==
                 AbsDiff(point[1].column, sel.anchor[1].column) > MAX_COLUMN_DISTANCE
         IN  IF moved_to_other_wrapped_line \/ moved_far_enough_horizontally
             THEN None
             ELSE last_click

WordTokenPunctuation ==
    {"_", "-", ".", "/", "\\", ":", "@", "#", "$", "%", "+", "=", "?", "&", "~", "*"}

\* the alphanumeric characters that occur in the transcripts of this model
Alphanumeric == {"a", "b", "c", "d", "e"}

word_char_class(ch) ==
    IF ch = " " THEN "Whitespace"
    ELSE IF ch \in Alphanumeric \cup WordTokenPunctuation THEN "Token"
    ELSE "Other"

\* the text after the first prefix_cols display columns
ContentAfterPrefix(line, prefix_cols) ==
    SubSeq(line, Min(prefix_cols, Len(line)) + 1, Len(line))

RECURSIVE RunStart(_, _, _)
RunStart(content, idx, class) ==
    IF idx > 0 /\ word_char_class(content[idx]) = class
    THEN RunStart(content, idx - 1, class)
    ELSE idx

RECURSIVE RunEnd(_, _, _)
RunEnd(content, idx, class) ==
    IF idx + 1 < Len(content) /\ word_char_class(content[idx + 2]) = class
    THEN RunEnd(content, idx + 1, class)
    ELSE idx

\* Option<(start, end)>: inclusive content columns of the run under click_col
word_bounds_in_wrapped_line(line, prefix_cols, click_col) ==
    LET content == ContentAfterPrefix(line, prefix_cols)
        total_width == Len(content)
    IN  IF total_width = 0
        THEN None
        ELSE LET idx == Min(click_col, total_width - 1)
                 class == word_char_class(content[idx + 1])
             IN  Some(<<RunStart(content, idx, class),
                        (RunEnd(content, idx, class) + 1) - 1>>)

is_break(lines, prefix_cols, idx) ==
    \A k \in DOMAIN ContentAfterPrefix(lines[idx + 1], prefix_cols) :
        ContentAfterPrefix(lines[idx + 1], prefix_cols)[k] = " "

RECURSIVE ParagraphStart(_, _, _)
ParagraphStart(lines, prefix_cols, start) ==
    IF start > 0 /\ ~is_break(lines, prefix_cols, start - 1)
    THEN ParagraphStart(lines, prefix_cols, start - 1)
    ELSE start

RECURSIVE ParagraphEnd(_, _, _)
ParagraphEnd(lines, prefix_cols, end) ==
    IF end + 1 < Len(lines) /\ ~is_break(lines, prefix_cols, end + 1)
    THEN ParagraphEnd(lines, prefix_cols, end + 1)
    ELSE end

\* Option<(start, end)>: inclusive wrapped line indices of the paragraph
paragraph_bounds_in_wrapped_lines(lines, prefix_cols, line_index) ==
    IF Len(lines) = 0
    THEN None
    ELSE LET clamped == Min(line_index, Len(lines) - 1)
             above == {i \in 0..(clamped - 1) : ~is_break(lines, prefix_cols, i)}
             below == {i \in (clamped + 1)..(Len(lines) - 1) : ~is_break(lines, prefix_cols, i)}
         IN  IF ~is_break(lines, prefix_cols, clamped)
             THEN Some(<<ParagraphStart(lines, prefix_cols, clamped),
                         ParagraphEnd(lines, prefix_cols, clamped)>>)
             ELSE IF above # {}
             THEN Some(<<ParagraphStart(lines, prefix_cols, MaxOf(above)),
                         ParagraphEnd(lines, prefix_cols, MaxOf(above))>>)
             ELSE IF below # {}
             THEN Some(<<ParagraphStart(lines, prefix_cols, MinOf(below)),
                         ParagraphEnd(lines, prefix_cols, MinOf(below))>>)
             ELSE None

RECURSIVE CellStart(_, _, _)
CellStart(wrapped_cell_index, start, cell_index) ==
    IF start > 0 /\ wrapped_cell_index[start] = Some(cell_index)
    THEN CellStart(wrapped_cell_index, start - 1, cell_index)
    ELSE start

RECURSIVE CellEnd(_, _, _)
CellEnd(wrapped_cell_index, end, cell_index) ==
    IF end + 1 < Len(wrapped_cell_index) /\ wrapped_cell_index[end + 2] = Some(cell_index)
    THEN CellEnd(wrapped_cell_index, end + 1, cell_index)
    ELSE end

\* Option<(start, end)>: inclusive wrapped line indices of the history cell
cell_bounds_in_wrapped_lines(wrapped_cell_index, line_index) ==
    LET total == Len(wrapped_cell_index)
    IN  IF total = 0
        THEN None
        ELSE LET clamped == Min(line_index, total - 1)
                 above == {i \in 0..(clamped - 1) : wrapped_cell_index[i + 1] # None}
                 below == {i \in (clamped + 1)..(total - 1) : wrapped_cell_index[i + 1] # None}
                 target == IF wrapped_cell_index[clamped + 1] # None THEN clamped
                           ELSE IF above # {} THEN MaxOf(above)
                           ELSE IF below # {} THEN MinOf(below)
                           ELSE clamped
             IN  IF wrapped_cell_index[target + 1] = None
                 THEN None
                 ELSE Some(<<CellStart(wrapped_cell_index, target,
                                       wrapped_cell_index[target + 1][1]),
                             CellEnd(wrapped_cell_index, target,
                                     wrapped_cell_index[target + 1][1])>>)

\* the flattened lines and, per line, the index of the cell it came from
RECURSIVE BuildFrom(_, _, _, _, _)
BuildFrom(cells, i, lines, line_cell_index, has_emitted_lines) ==
    IF i > Len(cells)
    THEN [lines |-> lines, cell_index |-> line_cell_index]
    ELSE IF Len(cells[i].lines) = 0
    THEN BuildFrom(cells, i + 1, lines, line_cell_index, has_emitted_lines)
    ELSE LET spacer == ~cells[i].is_stream_continuation /\ has_emitted_lines
         IN  BuildFrom(cells, i + 1,
                       (IF spacer THEN Append(lines, <<>>) ELSE lines) \o cells[i].lines,
                       (IF spacer THEN Append(line_cell_index, None) ELSE line_cell_index)
                           \o [k \in 1..Len(cells[i].lines) |-> Some(i - 1)],
                       has_emitted_lines \/ ~cells[i].is_stream_continuation)

build_transcript_lines_with_cell_index(cells, width) ==
    BuildFrom(cells, 1, <<>>, <<>>, FALSE)

\* crate::wrapping::word_wrap_line: a line that fits the width is one wrapped
\* line; a longer one is cut at the width
RECURSIVE word_wrap_line(_, _)
word_wrap_line(line, width) ==
    IF Len(line) <= width
    THEN <<line>>
    ELSE <<SubSeq(line, 1, width)>> \o word_wrap_line(SubSeq(line, width + 1, Len(line)), width)

RECURSIVE WrapLinesFrom(_, _, _, _)
WrapLinesFrom(lines, line_cell_index, i, width) ==
    IF i > Len(lines)
    THEN [lines |-> <<>>, cell_index |-> <<>>]
    ELSE LET wrapped == word_wrap_line(lines[i], width)
             rest == WrapLinesFrom(lines, line_cell_index, i + 1, width)
         IN  [lines |-> wrapped \o rest.lines,
              cell_index |-> [k \in 1..Len(wrapped) |-> line_cell_index[i]] \o rest.cell_index]

word_wrap_lines_with_cell_index(lines, line_cell_index, width) ==
    WrapLinesFrom(lines, line_cell_index, 1, width)

CaretSelection(point) == [anchor |-> Some(point), head |-> Some(point)]

SpanSelection(start_line, start_col, end_line, end_col) ==
    [anchor |-> Some(TranscriptSelectionPoint(start_line, start_col)),
     head |-> Some(TranscriptSelectionPoint(end_line, end_col))]

\* the part of selection_for_click after the transcript has been wrapped
SelectionInWrapped(wrapped, raw_point, click_count, max_content_col) ==
    LET line_index == Min(raw_point.line_index, SatSub(Len(wrapped.lines), 1))
        point == TranscriptSelectionPoint(line_index, Min(raw_point.column, max_content_col))
        word == word_bounds_in_wrapped_line(wrapped.lines[line_index + 1],
                                            TRANSCRIPT_GUTTER_COLS, point.column)
        paragraph == paragraph_bounds_in_wrapped_lines(wrapped.lines,
                                                       TRANSCRIPT_GUTTER_COLS, line_index)
        cell == cell_bounds_in_wrapped_lines(wrapped.cell_index, line_index)
    IN  IF click_count = 2
        THEN IF word = None
             THEN CaretSelection(point)
             ELSE SpanSelection(line_index, Min(word[1][1], max_content_col),
                                line_index, Min(word[1][2], max_content_col))
        ELSE IF click_count = 3
        THEN SpanSelection(line_index, 0, line_index, max_content_col)
        ELSE IF click_count = 4
        THEN IF paragraph = None
             THEN SpanSelection(line_index, 0, line_index, max_content_col)
             ELSE SpanSelection(paragraph[1][1], 0, paragraph[1][2], max_content_col)
        ELSE IF cell = None
             THEN CaretSelection(point)
             ELSE SpanSelection(cell[1][1], 0, cell[1][2], max_content_col)

selection_for_click(cells, width, point, click_count) ==
    IF click_count = 1
    THEN CaretSelection(point)
    ELSE LET max_content_col == SatSub(SatSub(width, 1), TRANSCRIPT_GUTTER_COLS)
             built == build_transcript_lines_with_cell_index(cells, width)
             wrapped == word_wrap_lines_with_cell_index(built.lines, built.cell_index,
                                                        Max(width, 1))
         IN  IF Len(built.lines) = 0 \/ Len(wrapped.lines) = 0
             THEN CaretSelection(point)
             ELSE SelectionInWrapped(wrapped, point, click_count, max_content_col)

\* on_mouse_down_at: the selection and the tracker it leaves
on_mouse_down_at_AnchorOnly(sel, last_click, cells, width, point, now) ==
    IF point = None
    THEN [selection |-> on_mouse_down(sel, point), tracker |-> None]
    ELSE [selection |-> on_mouse_down(sel, point),
          tracker |-> Some(register_click(last_click, point[1], now))]
on_mouse_down_at(sel, last_click, cells, width, point, now) ==
    IF point = None
    THEN [selection |-> on_mouse_down(sel, point), tracker |-> None]
    ELSE LET click == register_click(last_click, point[1], now)
         IN  [selection |-> IF click.click_count = 1
                            THEN on_mouse_down(sel, point)
                            ELSE selection_for_click(cells, width, point[1], click.click_count),
              tracker |-> Some(click)]

(***************************************************************************)
(* The mouse handlers of the app over a fixed transcript: four history     *)
(* cells (the third has no display lines, the second continues the first)  *)
(* rendered at McWidth columns.  Flattened, the wrapped lines are          *)
(*   0  "> ab    (((( abc"   cell 0                                        *)
(*   1  "  "                 cell 0                                        *)
(*   2  "  c"                cell 0                                        *)
(*   3  "  d"                cell 1 (stream continuation)                  *)
(*   4  ""                   spacer                                        *)
(*   5  "> e"                cell 3                                        *)
(***************************************************************************)
McWidth == 16

McCells ==
    << [lines |-> << <<">", " ", "a", "b", " ", " ", " ", " ",
                       "(", "(", "(", "(", " ", "a", "b", "c">>,
                     <<" ", " ">>,
                     <<" ", " ", "c">> >>,
        is_stream_continuation |-> FALSE],
       [lines |-> << <<" ", " ", "d">> >>, is_stream_continuation |-> TRUE],
       [lines |-> <<>>, is_stream_continuation |-> FALSE],
       [lines |-> << <<">", " ", "e">> >>, is_stream_continuation |-> FALSE] >>

McLines == Len(build_transcript_lines_with_cell_index(McCells, McWidth).lines)

ClickCols == {0, 5, 9, 13}

ClickPoints ==
    {TranscriptSelectionPoint(l, c) : l \in 0..(McLines - 1), c \in ClickCols}

\* rapid clicking on one wrapped line
BurstPoints == {TranscriptSelectionPoint(0, c) : c \in ClickCols}

\* time between two mouse-down events, ms
ClickDts == {0, MAX_DELAY, MAX_DELAY + 1}

MaxClock == 1301

MaxClickCount == 6

\* MouseEventKind::Down(Left) inside the transcript (app.rs:935-951)
Press(points, max_count) ==
    \E point \in OptionOf(points), dt \in ClickDts :
        /\ clock + dt <= MaxClock
        /\ tracker # None => tracker[1].click_count < max_count
        /\ \E out \in {on_mouse_down_at(selection, tracker, McCells, McWidth,
                                        point, clock + dt)} :
               /\ selection' = out.selection
               /\ tracker' = out.tracker
        /\ clock' = clock + dt
        /\ UNCHANGED <<sel_call, frame, scrollVars, animVars, taVars, restVars>>

\* MouseEventKind::Drag(Left) (app.rs:952-976); lock_scroll only moves the
\* viewport, which this machine does not hold
DragTo(points) ==
    \E point \in OptionOf(points) :
        \E out \in {on_mouse_drag(selection, "Scrolled", point, FALSE)} :
            /\ selection' = out.selection
            /\ tracker' = multi_click_on_mouse_drag(tracker, out.selection, point)
            /\ UNCHANGED <<clock, sel_call, frame, scrollVars, animVars, taVars, restVars>>

\* MouseEventKind::Up(Left) (app.rs:977-986)
Release ==
    /\ selection' = on_mouse_up(selection)
    /\ UNCHANGED <<tracker, clock, sel_call, frame, scrollVars, animVars, taVars, restVars>>

MultiClickPress == Press(ClickPoints, MaxClickCount)

MultiClickDrag == DragTo(ClickPoints)

BurstPress == Press(BurstPoints, U8_MAX + 1)

BurstDrag == DragTo(BurstPoints)

(***************************************************************************)
(* App::handle_mouse_event (app.rs:835-989) for the button and move events *)
(* on a screen of McWidth columns and ScreenHeight rows that shows the     *)
(* transcript from its first line, above a composer of chat_height rows.   *)
(* Wheel events go to the scroll machine above; no copy pill is shown.     *)
(***************************************************************************)
ScreenHeight == 3

MouseEventKinds == {"Down(Left)", "Drag(Left)", "Up(Left)", "Down(Right)", "Moved"}

\* the columns the mouse is at: in the gutter and on the content
MouseColumns == {0, 11}

MouseDts == {0, MAX_DELAY + 1}

\* clicks counted in one sequence before the events stop pressing
MouseMaxClicks == 3

transcript_point_from_coordinates(total_lines, view_top, area_height, base_x, x, y) ==
    IF total_lines = 0 \/ (y >= area_height /\ area_height = 0)
    THEN None
    ELSE Some(TranscriptSelectionPoint(
                  Min(view_top + (IF y >= area_height THEN SatSub(area_height, 1) ELSE y),
                      SatSub(total_lines, 1)),
                  SatSub(x, base_x)))

\* lines 878-891: the selection after an event below the transcript area
OutsideTranscript_AnyEvent(sel, kind) == DefaultSelection
OutsideTranscript(sel, kind) ==
    IF kind \in {"Down(Left)", "Up(Left)"} /\ (sel.anchor # None \/ sel.head # None)
    THEN DefaultSelection
    ELSE sel

\* the selection and the click tracker that the event leaves
MouseHandled(overlay, chat_height, kind, column, row, now) ==
    LET width == McWidth
        height == ScreenHeight
        transcript_height == SatSub(height, chat_height)
        base_x == TRANSCRIPT_GUTTER_COLS
        max_x == SatSub(width, 1)
        point == transcript_point_from_coordinates(
                     McLines, 0, transcript_height, base_x, Clamp(column, base_x, max_x), row)
        left == [selection |-> selection, tracker |-> tracker]
    IN  IF overlay \/ width = 0 \/ height = 0 \/ chat_height >= height
           \/ transcript_height = 0
        THEN left
        ELSE IF row >= transcript_height
             THEN [left EXCEPT !.selection = OutsideTranscript(selection, kind)]
             ELSE IF kind = "Down(Left)"
                  THEN on_mouse_down_at(selection, tracker, McCells, McWidth, point, now)
                  ELSE IF kind = "Drag(Left)"
                       THEN [selection |->
                                 on_mouse_drag(selection, "Scrolled", point, FALSE).selection,
                             tracker |->
                                 multi_click_on_mouse_drag(
                                     tracker,
                                     on_mouse_drag(selection, "Scrolled", point, FALSE).selection,
                                     point)]
                       ELSE IF kind = "Up(Left)"
                            THEN [left EXCEPT !.selection = on_mouse_up(selection)]
                            ELSE left

\* sel_call keeps the event, whether it was below the transcript area, and
\* the selection it found there
HandleMouseEvent(overlay, chat_height, kind, column, row, dt) ==
    LET handled == MouseHandled(overlay, chat_height, kind, column, row, clock + dt)
        outside == row >= SatSub(ScreenHeight, chat_height)
    IN  /\ clock + dt <= MaxClock
        /\ (kind = "Down(Left)" /\ tracker # None) =>
               tracker[1].click_count < MouseMaxClicks
        /\ selection' = handled.selection
        /\ tracker' = handled.tracker
        /\ clock' = clock + dt
        /\ sel_call' = [op |-> kind, outside |-> outside,
                        shown |-> ~overlay /\ chat_height < ScreenHeight,
                        before |-> IF outside THEN selection ELSE DefaultSelection]
        /\ UNCHANGED <<frame, scrollVars, animVars, taVars, restVars>>

MouseEvent ==
    \E overlay \in BOOLEAN, chat_height \in {1, ScreenHeight}, kind \in MouseEventKinds,
       column \in MouseColumns, row \in 0..(ScreenHeight - 1), dt \in MouseDts :
        HandleMouseEvent(overlay, chat_height, kind, column, row, dt)

Init == ScrollInit /\ AnimInit /\ TextAreaInit /\ TranscriptInit /\ RestInit

ScrollNext == OnScrollEvent \/ OnScheduledTick \/ OnTick

SpecScroll == Init /\ [][ScrollNext]_vars

InitBurst == BurstInit /\ AnimInit /\ TextAreaInit /\ TranscriptInit /\ RestInit

SpecBurst == InitBurst /\ [][OnBurstEvent]_vars

InitCarry == CarryInit /\ AnimInit /\ TextAreaInit /\ TranscriptInit /\ RestInit

SpecCarry == InitCarry /\ [][OnCarriedEvent]_vars

InitGesture == GestureInit /\ AnimInit /\ TextAreaInit /\ TranscriptInit /\ RestInit

GestureNext == GestureEventAtOnce \/ GestureEventLater

SpecGesture == InitGesture /\ [][GestureNext]_vars

AnimNext == StartCommitAnimation \/ StopCommitAnimation \/ CommitTick \/ WorkerLoads \/ WorkerTicks

SpecAnim == Init /\ [][AnimNext]_vars

InitTextArea ==
    /\ ScrollInitWith({DefaultConfig})
    /\ last_redraw_at = 0
    /\ AnimInit
    /\ TextAreaInit
    /\ TranscriptInit
    /\ RestInit

TextAreaNext ==
    \/ DoSetText
    \/ DoInsertStr
    \/ DoInsertStrAt
    \/ DoReplaceRange
    \/ DoSetCursor
    \/ DoInsertElement
    \/ DoDesiredHeight
    \/ DoDeleteBackward
    \/ DoDeleteForward
    \/ DoDeleteBackwardWord
    \/ DoDeleteForwardWord
    \/ DoKillToEndOfLine
    \/ DoKillToBeginningOfLine
    \/ DoYank
    \/ DoMoveCursorLeft
    \/ DoMoveCursorRight
    \/ DoMoveCursorUp
    \/ DoMoveCursorDown
    \/ DoMoveCursorToBeginningOfLine
    \/ DoMoveCursorToEndOfLine

SpecTextArea == InitTextArea /\ [][TextAreaNext]_vars

TextAreaEditNext ==
    \/ EdInsertStr
    \/ EdReplaceRange
    \/ EdSetCursor
    \/ EdInsertElement
    \/ EdDeleteBackward

SpecTextAreaEdit == InitTextArea /\ [][TextAreaEditNext]_vars

TextAreaRenderNext == RenderSetText \/ RenderSetCursor \/ RenderRef

SpecTextAreaRender == InitTextArea /\ [][TextAreaRenderNext]_vars

TextAreaKillNext ==
    \/ KillSetText
    \/ KillSetCursor
    \/ KillInsertElement
    \/ KillToEndOfLineCall
    \/ KillToBeginningOfLineCall
    \/ DeleteBackwardWordCall
    \/ YankCall

SpecTextAreaKill == InitTextArea /\ [][TextAreaKillNext]_vars

InitTerminal ==
    /\ ScrollInitWith({DefaultConfig})
    /\ last_redraw_at = 0
    /\ AnimInit
    /\ TextAreaInit
    /\ TranscriptInit
    /\ RestInit

TerminalNext == TryDraw \/ BackendResized

SpecTerminal == InitTerminal /\ [][TerminalNext]_vars

InitScreen ==
    /\ ScrollInitWith({DefaultConfig})
    /\ last_redraw_at = 0
    /\ AnimInit
    /\ TextAreaInit
    /\ TranscriptInit
    /\ ScreenInit
    /\ CopyInit
    /\ SkillsInit

SpecScreen == InitScreen /\ [][DrawFrame]_vars

InitModifier ==
    /\ ScrollInitWith({DefaultConfig})
    /\ last_redraw_at = 0
    /\ AnimInit
    /\ TextAreaInit
    /\ TranscriptInit
    /\ ModifierInit
    /\ CopyInit
    /\ SkillsInit

SpecModifier == InitModifier /\ [][QueueModifierDiff]_vars

InitCopy ==
    /\ ScrollInitWith({DefaultConfig})
    /\ last_redraw_at = 0
    /\ AnimInit
    /\ TextAreaInit
    /\ TranscriptInit
    /\ TerminalInit
    /\ CopyInitWithInputs
    /\ SkillsInit

SpecCopy == InitCopy /\ [][CopySelection]_vars

SelectionNext == OnMouseDown \/ OnMouseDrag \/ OnMouseUp

SpecSelection == Init /\ [][SelectionNext]_vars

InitHighlight ==
    /\ ScrollInitWith({DefaultConfig})
    /\ last_redraw_at = 0
    /\ AnimInit
    /\ TextAreaInit
    /\ HighlightInit
    /\ RestInit

SpecHighlight == InitHighlight /\ [][Draw]_vars

InitTranscript ==
    /\ ScrollInitWith({DefaultConfig})
    /\ last_redraw_at = 0
    /\ AnimInit
    /\ TextAreaInit
    /\ TranscriptInit
    /\ RestInit

MultiClickNext == MultiClickPress \/ MultiClickDrag \/ Release

SpecMultiClick == InitTranscript /\ [][MultiClickNext]_vars

ClickBurstNext == BurstPress \/ BurstDrag \/ Release

SpecClickBurst == InitTranscript /\ [][ClickBurstNext]_vars

SpecMouse == InitTranscript /\ [][MouseEvent]_vars

InitSkillsWith(disks, injections) ==
    /\ ScrollInitWith({DefaultConfig})
    /\ last_redraw_at = 0
    /\ AnimInit
    /\ TextAreaInit
    /\ TranscriptInit
    /\ TerminalInit
    /\ CopyInit
    /\ SkillsInitWith(disks)
    /\ sk_inj \in injections

InitSkillsLoad == InitSkillsWith(LoadDisks, {NoInjectionInputs})

SpecSkillsLoad == InitSkillsLoad /\ [][LoadSkills]_vars

InitSkillsWalk == InitSkillsWith(DisksWalked(Walks), {NoInjectionInputs})

SpecSkillsWalk == InitSkillsWalk /\ [][LoadSkills]_vars

InitSystem ==
    /\ ScrollInitWith({DefaultConfig})
    /\ last_redraw_at = 0
    /\ AnimInit
    /\ TextAreaInit
    /\ TranscriptInit
    /\ TerminalInit
    /\ CopyInit
    /\ ManagerInitWith({EmptyDisk})
    /\ sk_inj = NoInjectionInputs
    /\ sk_system \in {[disk |-> d, run |-> NoInstall] : d \in {FreshSystemDisk, OldSystemDisk}}

SpecSystemSkills == InitSystem /\ [][InstallSystemSkills]_vars

SkillsManagerNext == ManagerCall \/ ManagerInsert \/ DiskChanged

InitSkillsManager == InitSkillsWith(ManagerDisks, {NoInjectionInputs})

SpecSkillsManager == InitSkillsManager /\ [][SkillsManagerNext]_vars

InitInjection ==
    InitSkillsWith({EmptyDisk},
                   {i @@ [done |-> FALSE, out |-> DefaultInjections] : i \in InjectionInputs})

SpecSkillInjection == InitInjection /\ [][BuildSkillInjections]_vars

-----------------------------------------------------------------------------
(* Properties of the scroll normaliser, checked under SpecScroll            *)

Active == stream # None
\* the last handler found an active stream
HadStream == call.old_direction # "None"
\* lines the last handler returned from the flush of the stream that is
\* active now, as opposed to the finalization of its predecessor
FlushedLines == update.lines - call.fin_lines
\* time since the last redraw when the last handler decided about that flush
FlushSinceRedraw == IF call.fin_lines # 0 THEN 0 ELSE call.since_redraw

(* C2, as amended: after a scroll event at time t and no further event,    *)
(* while the stream is open next_tick_in asks for a tick no later than     *)
(* t + 80 ms; a tick up to and including t + 80 ms leaves the stream open; *)
(* a tick later than t + 80 ms closes it with no integer line left         *)
(* pending and asks for no further tick.                                   *)
C2_TickClosesAfterGap ==
    /\ Active => /\ update.next_tick_in # None
                 /\ update.next_tick_in[1] + stream[1].last <= STREAM_GAP_MS
    /\ call.op = "tick" /\ HadStream =>
          IF call.gap > STREAM_GAP_MS
          THEN ~Active /\ fin.pending = 0 /\ update.next_tick_in = None
          ELSE Active

\* a tick later than t + 80 ms has closed a stream and returned lines
C2_Witness ==
    /\ call.op = "tick" /\ HadStream /\ call.gap > STREAM_GAP_MS
    /\ ~Active /\ call.fin_lines # 0

(* C2 as stated: when on_tick runs after every delay returned in           *)
(* next_tick_in, the stream is closed by t + 80 ms, every pending line     *)
(* returned.                                                               *)
C2_ClosedByGap ==
    call.op = "tick" /\ HadStream /\ call.on_schedule /\ call.gap >= STREAM_GAP_MS
        => ~Active /\ fin.pending = 0

(* C5: an event that arrives while a stream is active starts a new stream, *)
(* the old one finalized with nothing pending, if and only if the time     *)
(* since the stream's last event exceeds 80 ms or the directions differ;   *)
(* otherwise it is counted in the existing stream.                         *)
C5_FinalizeIffGapOrReversal ==
    call.op = "event" /\ HadStream =>
        IF call.gap > STREAM_GAP_MS \/ call.old_direction # stream[1].direction
        THEN /\ seen = 1 /\ stream[1].event_count = 1
             /\ fin.direction = call.old_direction /\ fin.pending = 0
        ELSE seen > 1 /\ stream[1].event_count = seen

\* a reversal within the gap has closed a stream
C5_Witness ==
    /\ call.op = "event" /\ HadStream /\ call.gap <= STREAM_GAP_MS
    /\ call.old_direction # stream[1].direction /\ seen = 1

(* C6: a flushed wheel-like stream with non-zero accumulated events whose  *)
(* truncated line total is zero has applied one line in the direction of   *)
(* the events.                                                             *)
C6_WheelNotchNeverSilent ==
    Active /\ IsWheelLike(stream[1]) /\ stream[1].accumulated_events # 0
           /\ RTrunc(DesiredLinesF32(stream[1], carry_lines)) = 0
        => stream[1].applied_lines = Signum(stream[1].accumulated_events)

C6_Witness ==
    /\ Active /\ IsWheelLike(stream[1]) /\ stream[1].accumulated_events # 0
    /\ RTrunc(DesiredLinesF32(stream[1], carry_lines)) = 0
    /\ update.lines = Sign(stream[1].direction)

\* wheel-like (or just promoted) streams are flushed by every event
WheelFlushesOnEveryEvent ==
    call.op = "event" /\ IsWheelLike(stream[1]) =>
        /\ stream[1].applied_lines = FlushTarget(stream[1], carry_lines)
        /\ ~stream[1].just_promoted

(* C8, as amended: wheel-like or just-promoted streams flush on every      *)
(* event; an open trackpad-like stream returns lines only when at least    *)
(* 16 ms have passed since the last redraw (a finalization flushes what is *)
(* pending whatever the time since the last redraw).                       *)
C8_TrackpadFlushAtCadence ==
    /\ WheelFlushesOnEveryEvent
    /\ Active /\ ~IsWheelLike(stream[1]) /\ FlushedLines # 0
          => FlushSinceRedraw >= REDRAW_CADENCE_MS

\* an open trackpad-like stream has returned lines
C8_Witness ==
    /\ Active /\ ~IsWheelLike(stream[1]) /\ FlushedLines # 0
    /\ stream[1].event_count > 1

(* C8 as stated: the pending lines of a trackpad-like stream are flushed   *)
(* only when at least 16 ms have passed since the last redraw.             *)
C8_TrackpadFlushOnlyAtCadence ==
    /\ C8_TrackpadFlushAtCadence
    /\ call.fin_lines # 0 /\ fin.kind = "Trackpad"
          => call.since_redraw >= REDRAW_CADENCE_MS

(* C9: after every event or tick, next_tick_in is None exactly when there  *)
(* is no active stream or its gap exceeds 80 ms; otherwise it is           *)
(* min(80 - gap, max(0, 16 - time since last redraw)) when the truncated   *)
(* desired total differs from the applied lines, and 80 - gap when not.    *)
C9_NextTickIn ==
    IF ~Active \/ stream[1].last > STREAM_GAP_MS
    THEN update.next_tick_in = None
    ELSE IF RTrunc(DesiredLinesF32(stream[1], carry_lines)) # stream[1].applied_lines
         THEN update.next_tick_in =
                  Some(Min(STREAM_GAP_MS - stream[1].last,
                           Max(0, REDRAW_CADENCE_MS - last_redraw_at)))
         ELSE update.next_tick_in = Some(STREAM_GAP_MS - stream[1].last)

\* lines are pending and the redraw cadence decides the next tick
C9_Witness ==
    /\ Active
    /\ RTrunc(DesiredLinesF32(stream[1], carry_lines)) # stream[1].applied_lines
    /\ update.next_tick_in = Some(REDRAW_CADENCE_MS - last_redraw_at)
    /\ REDRAW_CADENCE_MS - last_redraw_at \in 1 .. STREAM_GAP_MS - stream[1].last - 1

C31_LinesConserved ==
    fin.kind # "None" => fin.returned = fin.target

\* a stream closed now whose lines were returned in part before and in part
\* by its finalization
C31_Witness ==
    /\ fin.kind # "None"
    /\ call.fin_lines # 0
    /\ fin.returned # call.fin_lines
    /\ fin.returned = fin.target

-----------------------------------------------------------------------------
(* Properties of a dense burst, checked under SpecBurst                     *)

\* the event handled last completed the first notch of an Auto-mode stream
\* no later than wheel_tick_detect_max after the stream's first event
NotchCompletedInTime ==
    /\ Active /\ call.op = "event"
    /\ config.mode = "Auto" /\ config.events_per_tick >= 2
    /\ seen = config.events_per_tick
    /\ stream[1].start <= config.wheel_tick_detect_max

(* C4: in Auto mode with events_per_tick >= 2, once events_per_tick events *)
(* have been observed within wheel_tick_detect_max of the stream's start,  *)
(* the stream's kind is Wheel (before the next flush is computed).         *)
C4_NotchPromotesToWheel ==
    NotchCompletedInTime => stream[1].kind = "Wheel"

(* C7: in Auto mode with events_per_tick = n >= 2, when n same-direction   *)
(* events arrive in one stream, the n-th no later than                     *)
(* wheel_tick_detect_max after the first, the lines returned for those n   *)
(* events sum to wheel_lines_per_tick lines in that direction.             *)
C7_NotchScrollsWheelLines ==
    NotchCompletedInTime =>
        stream[1].applied_lines = Sign(stream[1].direction) * config.wheel_lines_per_tick

-----------------------------------------------------------------------------
(* Properties of a notch after a trackpad gesture, checked under SpecCarry  *)

(* C32: the lines a handler returns from a flush of the active stream, if  *)
(* not zero, have the sign of that stream's direction (negative for up,    *)
(* positive for down), and so have the lines it returns from the           *)
(* finalization of a stream.                                               *)
C32_FlushHasStreamSign ==
    /\ FlushedLines # 0 =>
           Active /\ Signum(FlushedLines) = Sign(stream[1].direction)
    /\ call.fin_lines # 0 => Signum(call.fin_lines) = Sign(fin.direction)

-----------------------------------------------------------------------------
(* Properties of a gesture that goes on, checked under SpecGesture          *)

\* the last handler returned lines in the direction of the stream
Grew ==
    /\ Active
    /\ update.lines # 0
    /\ Signum(update.lines) = Sign(stream[1].direction)

\* the stream has counted all the events or applied all the lines it can,
\* and no line of its total is left to apply
Saturated ==
    /\ Active
    /\ \/ Abs(stream[1].accumulated_events) = MAX_EVENTS_PER_STREAM
       \/ Abs(stream[1].applied_lines) = MAX_ACCUMULATED_LINES
    /\ stream[1].applied_lines = FlushTarget(stream[1], carry_lines)

\* the event added to the events from which the lines of the stream are
\* computed
Nearer ==
    /\ Active /\ Active'
    /\ Abs(stream'[1].accumulated_events) > Abs(stream[1].accumulated_events)

\* the last handler came before the redraw cadence had elapsed and left
\* the lines to the tick it asked for
Deferred ==
    /\ call.since_redraw < REDRAW_CADENCE_MS
    /\ update.next_tick_in # None

-----------------------------------------------------------------------------
(* Properties of the commit animation, checked under SpecAnim               *)

\* the threads that have not left their loop
LiveWorkers == {i \in DOMAIN workers : workers[i] # "exited"}

(* C3: for every interleaving of StartCommitAnimation and                  *)
(* StopCommitAnimation with the worker's sleep loop, at most one           *)
(* commit-animation worker thread exists at any time.                      *)
C3_AtMostOneWorker == Cardinality(LiveWorkers) <= 1


(***************************************************************************)
(* Properties of the text area, checked under SpecTextArea                  *)
(***************************************************************************)
\* C1: after every mutating operation of the text area the cursor is not
\* strictly inside an element: no element e has e.start < cursor < e.end.
C1_CursorNeverInsideElement ==
    \A i \in DOMAIN elements :
        ~(elements[i].start < cursor_pos /\ cursor_pos < elements[i].end)

\* A vertical move over the wrapped layout has left the cursor on the edge
\* of an element although the column it aimed at, on one of the wrapped
\* lines, is inside that element.
C1_Witness ==
    /\ wrap_cache # None
    /\ preferred_col # None
    /\ \E i \in DOMAIN elements, k \in DOMAIN wrap_cache[1].lines :
           /\ wrap_cache[1].lines[k].start + preferred_col[1] < wrap_cache[1].lines[k].end
           /\ elements[i].start < wrap_cache[1].lines[k].start + preferred_col[1]
           /\ wrap_cache[1].lines[k].start + preferred_col[1] < elements[i].end
           /\ cursor_pos \in {elements[i].start, elements[i].end}

-----------------------------------------------------------------------------
(* Properties of the transcript selection, checked under SpecSelection      *)

\* C11: on_mouse_up clears the selection (anchor and head both absent) when
\* the head is absent or equals the anchor, and otherwise leaves anchor and
\* head as they were.
C11_MouseUpClearsEmptySelection ==
    sel_call.op = "up" =>
        IF sel_call.before.head = None \/ sel_call.before.head = sel_call.before.anchor
        THEN selection.anchor = None /\ selection.head = None
        ELSE selection = sel_call.before

\* a release on a selection whose head came back onto the anchor
C11_Witness ==
    /\ sel_call.op = "up"
    /\ sel_call.before.head # None
    /\ sel_call.before.head = sel_call.before.anchor
    /\ selection = DefaultSelection

\* C12: on_mouse_down with a point sets the anchor to that point and the head
\* to absent, whatever the selection was before.
C12_MouseDownSetsAnchorOnly ==
    (sel_call.op = "down" /\ sel_call.point # None) =>
        /\ selection.anchor = sel_call.point
        /\ selection.head = None

\* a press elsewhere while a dragged selection was showing
C12_Witness ==
    /\ sel_call.op = "down"
    /\ sel_call.point # None
    /\ sel_call.before.head # None
    /\ sel_call.before.head # sel_call.before.anchor
    /\ sel_call.before.anchor # sel_call.point
    /\ selection.head = None

\* C13: on_mouse_drag to a point returns lock_scroll = true exactly when an
\* anchor exists, output is streaming, the scroll state is ToBottom and the
\* point differs from the anchor.
C13_LockScrollIff ==
    (sel_call.op = "drag" /\ sel_call.point # None) =>
        (sel_call.lock_scroll <=>
            /\ sel_call.before.anchor # None
            /\ sel_call.streaming
            /\ sel_call.scroll = "ToBottom"
            /\ sel_call.point # sel_call.before.anchor)

\* a drag back onto the anchor while streaming at the bottom: no lock
C13_Witness ==
    /\ sel_call.op = "drag"
    /\ sel_call.streaming
    /\ sel_call.scroll = "ToBottom"
    /\ sel_call.before.anchor # None
    /\ sel_call.point = sel_call.before.anchor
    /\ ~sel_call.lock_scroll
    /\ selection.head = sel_call.point

-----------------------------------------------------------------------------
(* Properties of the selection highlight, checked under SpecHighlight       *)

\* the cells <<x, y>> of the drawn frame f
FrameCells(f) == {<<x, y>> : x \in 0..(HlWidth - 1), y \in 0..(f.height - 1)}

ContentCol(x) == x - TRANSCRIPT_GUTTER_COLS

\* cell c of frame f shows a content column within the ordered selection
\* endpoints restricted to its row
InSelectedColumns(f, c) ==
    /\ f.selection.anchor # None
    /\ f.selection.head # None
    /\ ContentCol(c[1]) >= 0
    /\ LET a == f.selection.anchor[1]
           h == f.selection.head[1]
           start == IF PointLe(a, h) THEN a ELSE h
           end == IF PointLe(a, h) THEN h ELSE a
           line == f.view_top + c[2]
       IN  /\ line < HlLines
           /\ PointLe(TranscriptSelectionPoint(start.line_index,
                                               IF line = start.line_index THEN start.column ELSE 0),
                      TranscriptSelectionPoint(line, ContentCol(c[1])))
           /\ PointLe(TranscriptSelectionPoint(line, ContentCol(c[1])),
                      TranscriptSelectionPoint(end.line_index,
                                               IF line = end.line_index
                                               THEN end.column ELSE HlContentCols - 1))

\* the non-space content cells of the row of cell c
NonSpaceContent(f, c) ==
    {x \in TRANSCRIPT_GUTTER_COLS..(HlWidth - 1) : f.buf[c[2]][x + 1] # " "}

\* C14 as stated: the highlight is the selected columns of each row cut to
\* the range from the row's first to its last non-space content column.
C14_HighlightWithinNonSpace ==
    frame # None =>
        \A c \in FrameCells(frame[1]) :
            c \in frame[1].reversed <=>
                /\ InSelectedColumns(frame[1], c)
                /\ \E lo, hi \in NonSpaceContent(frame[1], c) : lo <= c[1] /\ c[1] <= hi

\* C14: the highlight is the selected columns of each row, cut on the right
\* at the row's last non-space content column; leading blanks of the row are
\* highlighted, and a row without a non-space content cell is not.
C14_HighlightUpToLastNonSpace ==
    frame # None =>
        \A c \in FrameCells(frame[1]) :
            c \in frame[1].reversed <=>
                /\ InSelectedColumns(frame[1], c)
                /\ \E hi \in NonSpaceContent(frame[1], c) : c[1] <= hi

\* a selected row with an indented text and trailing padding: the indent is
\* highlighted, the padding is not
C14_Witness ==
    /\ frame # None
    /\ \E y \in 0..(frame[1].height - 1) :
           /\ frame[1].buf[y][TRANSCRIPT_GUTTER_COLS + 1] = " "
           /\ frame[1].buf[y][HlWidth] = " "
           /\ <<TRANSCRIPT_GUTTER_COLS, y>> \in frame[1].reversed
           /\ <<TRANSCRIPT_GUTTER_COLS + 1, y>> \in frame[1].reversed
           /\ InSelectedColumns(frame[1], <<HlWidth - 1, y>>)
           /\ <<HlWidth - 1, y>> \notin frame[1].reversed

-----------------------------------------------------------------------------
(* Properties of the multi-click tracker, checked under SpecClickBurst and  *)
(* SpecMultiClick                                                           *)

\* the step is a mouse-down at point p, dt ms after the previous mouse-down
PressStep(p, dt) ==
    /\ clock' = clock + dt
    /\ selection' = on_mouse_down_at(selection, tracker, McCells, McWidth,
                                     Some(p), clock + dt).selection
    /\ tracker' = on_mouse_down_at(selection, tracker, McCells, McWidth,
                                   Some(p), clock + dt).tracker

\* the step is a drag to point p
DragStep(p) ==
    /\ clock' = clock
    /\ selection' = on_mouse_drag(selection, "Scrolled", Some(p), FALSE).selection
    /\ tracker' = multi_click_on_mouse_drag(
                      tracker, on_mouse_drag(selection, "Scrolled", Some(p), FALSE).selection,
                      Some(p))

\* a click at p, dt ms after the click `prev`, is close enough to continue it
ContinuesSequence(prev, p, dt) ==
    /\ dt <= 650
    /\ prev.point.line_index = p.line_index
    /\ LET d == AbsDiff(prev.point.column, p.column)
       IN  \/ prev.click_count <= 1 /\ d <= 4
           \/ prev.click_count = 2 /\ d <= 8
           \/ prev.click_count >= 3

\* C15 as stated: a click continues the previous sequence, with count = the
\* previous count + 1, iff it comes at most 650 ms after the previous click,
\* on the same line and within the column tolerance of the previous count;
\* otherwise its count is 1.
C15_CountIsPreviousPlusOne ==
    [][\A p \in BurstPoints, dt \in ClickDts :
           PressStep(p, dt) =>
               tracker'[1].click_count =
                   IF tracker # None /\ ContinuesSequence(tracker[1], p, dt)
                   THEN tracker[1].click_count + 1
                   ELSE 1]_vars

\* C15: as above, except that the count of a continuing click is the
\* previous count + 1 only up to 255, where it stays.
C15_CountIsPreviousPlusOneUpTo255 ==
    [][\A p \in BurstPoints, dt \in ClickDts :
           PressStep(p, dt) =>
               tracker'[1].click_count =
                   IF tracker # None /\ ContinuesSequence(tracker[1], p, dt)
                   THEN IF tracker[1].click_count < 255
                        THEN tracker[1].click_count + 1
                        ELSE 255
                   ELSE 1]_vars

\* a sequence that reached count 255 and went on 650 ms later
C15_Witness ==
    /\ tracker # None
    /\ tracker[1].click_count = 255
    /\ tracker[1].at >= 650

\* the drag to p left the anchor's wrapped line or went over 4 columns
LeftTheAnchor(anchor, p) ==
    \/ p.line_index # anchor.line_index
    \/ AbsDiff(p.column, anchor.column) > 4

\* C16 as stated: a drag to a point more than one wrapped line away from the
\* selection anchor, or more than 4 columns away, resets the click tracker
\* (the next click has count 1); a drag with smaller movement does not.
C16_DragResetsBeyondOneLine ==
    [][\A p \in ClickPoints :
           (DragStep(p) /\ selection.anchor # None) =>
               IF \/ AbsDiff(p.line_index, selection.anchor[1].line_index) > 1
                  \/ AbsDiff(p.column, selection.anchor[1].column) > 4
               THEN /\ tracker' = None
                    /\ \A q \in ClickPoints, dt \in ClickDts :
                           register_click(tracker', q, clock + dt).click_count = 1
               ELSE tracker' = tracker]_vars

\* C16: a drag to a point on another wrapped line than the selection anchor,
\* or more than 4 columns away, resets the click tracker (the next click has
\* count 1); a drag with smaller movement does not.
C16_DragResetsOffAnchorLine ==
    [][\A p \in ClickPoints :
           (DragStep(p) /\ selection.anchor # None) =>
               IF LeftTheAnchor(selection.anchor[1], p)
               THEN /\ tracker' = None
                    /\ \A q \in ClickPoints, dt \in ClickDts :
                           register_click(tracker', q, clock + dt).click_count = 1
               ELSE tracker' = tracker]_vars

\* a drag to the line next to the anchor's, within 4 columns, after which no
\* click is remembered
C16_Witness ==
    /\ selection.anchor # None
    /\ selection.head # None
    /\ AbsDiff(selection.head[1].line_index, selection.anchor[1].line_index) = 1
    /\ AbsDiff(selection.head[1].column, selection.anchor[1].column) <= 4
    /\ tracker = None
    /\ clock > 0

\* the wrapped transcript the clicks land on
McWrapped ==
    word_wrap_lines_with_cell_index(
        build_transcript_lines_with_cell_index(McCells, McWidth).lines,
        build_transcript_lines_with_cell_index(McCells, McWidth).cell_index,
        McWidth)

McContent(l) == ContentAfterPrefix(McWrapped.lines[l + 1], TRANSCRIPT_GUTTER_COLS)

McMaxContentCol == McWidth - 1 - TRANSCRIPT_GUTTER_COLS

\* columns s..e of line l are a maximal run of one character class
IsWordRun(l, s, e) ==
    /\ 0 <= s /\ s <= e /\ e < Len(McContent(l))
    /\ \A k \in s..e : word_char_class(McContent(l)[k + 1]) = word_char_class(McContent(l)[s + 1])
    /\ s > 0 => word_char_class(McContent(l)[s]) # word_char_class(McContent(l)[s + 1])
    /\ e + 1 < Len(McContent(l)) =>
           word_char_class(McContent(l)[e + 2]) # word_char_class(McContent(l)[e + 1])

NonBlank(l) == \E k \in DOMAIN McContent(l) : McContent(l)[k] # " "

\* lines s..e are a maximal run of non-blank wrapped lines
IsParagraph(s, e) ==
    /\ 0 <= s /\ s <= e /\ e < Len(McWrapped.lines)
    /\ \A l \in s..e : NonBlank(l)
    /\ s > 0 => ~NonBlank(s - 1)
    /\ e + 1 < Len(McWrapped.lines) => ~NonBlank(e + 1)

\* lines s..e are exactly the wrapped lines of the history cell of line l
IsCellOf(l, s, e) ==
    /\ McWrapped.cell_index[l + 1] # None
    /\ \A k \in 0..(Len(McWrapped.lines) - 1) :
           (s <= k /\ k <= e) <=> McWrapped.cell_index[k + 1] = McWrapped.cell_index[l + 1]

Spans(sel, start_line, start_col, end_line, end_col) ==
    /\ sel.anchor = Some(TranscriptSelectionPoint(start_line, start_col))
    /\ sel.head = Some(TranscriptSelectionPoint(end_line, end_col))

\* C17: the n-th click of a sequence sets the selection by granularity: n = 1
\* the anchor alone; n = 2 the run of one character class under the click
\* column; n = 3 the whole wrapped line; n = 4 the paragraph (run of non-blank
\* wrapped lines) around the clicked line; n >= 5 all wrapped lines of the
\* clicked history cell.
C17_ClickGranularity ==
    [][\A p \in ClickPoints, dt \in ClickDts :
           PressStep(p, dt) =>
               LET n == tracker'[1].click_count
                   l == p.line_index
               IN  /\ n = 1 => selection'.anchor = Some(p) /\ selection'.head = None
                   /\ (n = 2 /\ p.column < Len(McContent(l))) =>
                          \E s, e \in 0..McMaxContentCol :
                              /\ s <= p.column /\ p.column <= e
                              /\ IsWordRun(l, s, e)
                              /\ Spans(selection', l, s, l, e)
                   /\ n = 3 => Spans(selection', l, 0, l, McMaxContentCol)
                   /\ (n = 4 /\ NonBlank(l)) =>
                          \E s, e \in 0..(McLines - 1) :
                              /\ s <= l /\ l <= e
                              /\ IsParagraph(s, e)
                              /\ Spans(selection', s, 0, e, McMaxContentCol)
                   /\ (n >= 5 /\ McWrapped.cell_index[l + 1] # None) =>
                          \E s, e \in 0..(McLines - 1) :
                              /\ IsCellOf(l, s, e)
                              /\ Spans(selection', s, 0, e, McMaxContentCol)]_vars

\* a fourth click on the last line of a cell whose paragraph runs on into the
\* continuation cell below
C17_Witness ==
    /\ tracker # None
    /\ tracker[1].click_count = 4
    /\ tracker[1].point.line_index = 2
    /\ Spans(selection, 2, 0, 3, McMaxContentCol)

\* the selection is the one the last click of a sequence expanded to, and no
\* drag has changed it since
ExpandedByMultiClick ==
    /\ tracker # None
    /\ tracker[1].click_count >= 2
    /\ selection = selection_for_click(McCells, McWidth, tracker[1].point,
                                       tracker[1].click_count)

\* C36: when the left button is released after a click that brought the
\* sequence to count >= 2, without a drag, the selection keeps the anchor and
\* the head of the range that click expanded to, wherever the click was: the
\* release never clears a multi-click selection.
C36_ReleaseKeepsMultiClickSelection ==
    [][(ExpandedByMultiClick /\ Release) =>
           /\ selection' = selection
           /\ selection'.anchor # None
           /\ selection'.head # None]_vars

-----------------------------------------------------------------------------
(* Properties of the editing operations, checked under SpecTextAreaEdit     *)

\* the text grew by this much in the last call
LengthDelta == Len(text) - Len(ta_call.before.text)

\* element `new` of the text now holds the text that `old` held before
SameText(old, new) ==
    /\ new.end - new.start = old.end - old.start
    /\ Slice(text, new.start, new.end) = Slice(ta_call.before.text, old.start, old.end)

Shifted(e, by) == Range(e.start + by, e.end + by)

\* C18: after replace_range(r, s) every element is an element from before the
\* call with its text intact, in place when it lay before r and moved by the
\* length delta when it lay after r; after any other call every element is
\* such an intact element, in place or moved by the length delta, or the one
\* that insert_element has just added before the cursor.  No element is left
\* partly overwritten.
C18_ElementsStayWhole ==
    /\ ta_call.op = "replace_range" =>
           \A j \in DOMAIN elements :
               \E i \in DOMAIN ta_call.before.elements :
                   /\ SameText(ta_call.before.elements[i], elements[j])
                   /\ \/ /\ ta_call.before.elements[i].end <= ta_call.arg.start
                         /\ elements[j] = ta_call.before.elements[i]
                      \/ /\ ta_call.before.elements[i].start >= ta_call.arg.end
                         /\ elements[j] = Shifted(ta_call.before.elements[i], LengthDelta)
    /\ ta_call.op # "none" =>
           \A j \in DOMAIN elements :
               \/ \E i \in DOMAIN ta_call.before.elements :
                      /\ SameText(ta_call.before.elements[i], elements[j])
                      /\ elements[j] \in {ta_call.before.elements[i],
                                          Shifted(ta_call.before.elements[i], LengthDelta)}
               \/ /\ ta_call.op = "insert_element"
                  /\ Slice(text, elements[j].start, elements[j].end) = ta_call.s
                  /\ elements[j].end = cursor_pos

\* a replace_range that starts inside one element while another lies after
\* it: the first is gone, the second moved with the text
C18_Witness ==
    /\ ta_call.op = "replace_range"
    /\ LengthDelta # 0
    /\ \E i \in DOMAIN ta_call.before.elements :
           /\ ta_call.before.elements[i].start < ta_call.arg.start
           /\ ta_call.arg.start < ta_call.before.elements[i].end
    /\ \E i \in DOMAIN ta_call.before.elements, j \in DOMAIN elements :
           /\ ta_call.before.elements[i].start >= ta_call.arg.end
           /\ elements[j] = Shifted(ta_call.before.elements[i], LengthDelta)

\* the elements that the range r cuts into or covers
Touched(els, r) == {i \in DOMAIN els : els[i].start < r.end /\ els[i].end > r.start}

\* r widened to hold every element it touches
Widened(els, r) ==
    Range(MinOf({r.start} \cup {els[i].start : i \in Touched(els, r)}),
          MaxOf({r.end} \cup {els[i].end : i \in Touched(els, r)}))

\* where the cursor c goes when the range x is replaced by len characters
CursorAfter(c, x, len) ==
    IF c < x.start THEN c
    ELSE IF c <= x.end THEN x.start + len
    ELSE c + len - (x.end - x.start)

\* C19: after replace_range over the widened range x with s, a cursor before
\* x.start is unchanged, a cursor within x is at x.start + Len(s), a cursor
\* after x.end is shifted by Len(s) - (x.end - x.start); a position inside an
\* element is then moved to the nearest edge of that element.
C19_CursorAfterReplace ==
    ta_call.op = "replace_range" =>
        LET x == Widened(ta_call.before.elements, ta_call.arg)
            raw == CursorAfter(ta_call.before.cursor_pos, x, Len(ta_call.s))
            inside == {j \in DOMAIN elements :
                           elements[j].start < raw /\ raw < elements[j].end}
        IN  IF inside = {}
            THEN cursor_pos = raw
            ELSE \E j \in inside :
                     /\ cursor_pos \in {elements[j].start, elements[j].end}
                     /\ AbsDiff(cursor_pos, raw) =
                            Min(raw - elements[j].start, elements[j].end - raw)

\* a cursor strictly inside the widened range, brought to the end of the
\* inserted text
C19_Witness ==
    /\ ta_call.op = "replace_range"
    /\ Len(ta_call.s) > 0
    /\ Widened(ta_call.before.elements, ta_call.arg) # ta_call.arg
    /\ Widened(ta_call.before.elements, ta_call.arg).start < ta_call.before.cursor_pos
    /\ ta_call.before.cursor_pos < Widened(ta_call.before.elements, ta_call.arg).end
    /\ cursor_pos = Widened(ta_call.before.elements, ta_call.arg).start + Len(ta_call.s)
    /\ cursor_pos # ta_call.before.cursor_pos

-----------------------------------------------------------------------------
(* Properties of stateful rendering, checked under SpecTextAreaRender       *)

\* the wrapped line the cursor is on, in the frame just rendered
CursorLine == WrappedLineIndexByStart(wrap_cache[1].lines, cursor_pos)[1]

\* the frame just rendered had fewer rows than the text has wrapped lines
Scrolling ==
    /\ ta_call.op = "render"
    /\ ta_call.arg.height < Len(wrap_cache[1].lines)

\* the scroll offsets that show the cursor line
ShowsCursor(height) ==
    {v \in 0..Len(wrap_cache[1].lines) : v <= CursorLine /\ CursorLine < v + height}

\* C20 as stated: with fewer rows than wrapped lines, the scroll offset is the
\* smallest one that has the cursor's wrapped line within
\* [scroll, scroll + height), whatever the scroll stored before.
C20_ScrollIsSmallest ==
    Scrolling =>
        /\ ta_state \in ShowsCursor(ta_call.arg.height)
        /\ \A v \in ShowsCursor(ta_call.arg.height) : ta_state <= v

\* C20: with fewer rows than wrapped lines, the scroll offset is the one
\* closest to the scroll stored before, among the offsets up to total - height
\* that have the cursor's wrapped line within [scroll, scroll + height).
C20_ScrollIsNearestToPrior ==
    Scrolling =>
        LET fits == {v \in ShowsCursor(ta_call.arg.height) :
                         v + ta_call.arg.height <= Len(wrap_cache[1].lines)}
        IN  /\ ta_state \in fits
            /\ \A v \in fits :
                   AbsDiff(ta_state, ta_call.arg.scroll) <= AbsDiff(v, ta_call.arg.scroll)

\* a frame that keeps the stored offset, with the cursor line not on its
\* last row
C20_Witness ==
    /\ Scrolling
    /\ ta_state = ta_call.arg.scroll
    /\ ta_state > 0
    /\ CursorLine + 1 < ta_state + ta_call.arg.height

\* the scroll values a TextAreaState may hold when it is handed in
PriorScrolls == 0..(MaxLen + 2)

\* C21: for every text, cursor position, prior scroll and viewport of height
\* >= 1, the effective scroll s has s <= cursor's wrapped line < s + height:
\* the frame just rendered shows the cursor line, and the cursor is placed on a
\* row of the viewport, at its line's distance from s.
C21_CursorRowInViewport ==
    /\ ta_call.op = "render" =>
           /\ ta_state <= CursorLine
           /\ CursorLine < ta_state + ta_call.arg.height
    /\ \A width \in 1..MaxWidth, height \in 1..MaxHeight, scroll \in PriorScrolls :
           LET lines == WrapRanges(text, width)
               s == effective_scroll(Self, height, lines, scroll)
               i == WrappedLineIndexByStart(lines, cursor_pos)
               at == cursor_pos_with_state(Self, width, height, scroll)
           IN  /\ i # None
               /\ s <= i[1]
               /\ i[1] < s + height
               /\ at # None
               /\ at[1].row = i[1] - s
               /\ at[1].row < height

\* a frame that had to scroll down to keep the cursor line on its last row
C21_Witness ==
    /\ Scrolling
    /\ ta_state > ta_call.arg.scroll
    /\ CursorLine = ta_state + ta_call.arg.height - 1

-----------------------------------------------------------------------------
(* Properties of the wrap cache and the kill buffer, checked under          *)
(* SpecTextArea                                                             *)

\* C22: the wrap cache never holds a stale layout: a cached layout is the fresh
\* wrap of the current text at the cached width, so wrapped lines requested
\* for any width w are the fresh wrap of the current text at w, after every
\* sequence of mutations and width changes.
C22_WrapCacheIsFresh ==
    /\ wrap_cache # None =>
           wrap_cache[1].lines = WrapRanges(text, wrap_cache[1].width)
    /\ \A w \in 1..MaxWidth :
           WrappedLines(Self, w).wrap_cache =
               Some([width |-> w, lines |-> WrapRanges(text, w)])

\* a layout of several lines cached for a text that mutations built, whose
\* wrap at another width differs
C22_Witness ==
    /\ wrap_cache # None
    /\ Len(wrap_cache[1].lines) >= 2
    /\ elements # <<>>
    /\ \E w \in 1..MaxWidth : WrapRanges(text, w) # wrap_cache[1].lines

-----------------------------------------------------------------------------
(* Properties of kill and yank, checked under SpecTextAreaKill              *)

InsertedAt(t, pos, s) == Slice(t, 0, pos) \o s \o Slice(t, pos, Len(t))

-----------------------------------------------------------------------------
(* Properties of the element ranges, checked under SpecTextArea             *)

\* C39: after every text-area operation the element ranges are pairwise
\* non-overlapping, each has start <= end <= the length of the text, and they
\* are in ascending order of start.
C39_ElementRangesOrdered ==
    /\ \A i \in DOMAIN elements :
           elements[i].start <= elements[i].end /\ elements[i].end <= Len(text)
    /\ \A i, j \in DOMAIN elements :
           i < j =>
               /\ elements[i].start <= elements[j].start
               /\ elements[i].end <= elements[j].start \/ elements[j].end <= elements[i].start

\* two elements side by side that an insertion before them has shifted
C39_Witness ==
    /\ Len(elements) = 2
    /\ elements[1].start > 0
    /\ elements[1].end = elements[2].start
    /\ elements[2].end = Len(text)
    /\ elements[2].start < elements[2].end

-----------------------------------------------------------------------------
(* Properties of the terminal, checked under SpecTerminal                   *)

\* the calls that emit the frame's draw commands and its cursor update
EmittingCalls(cursor_position) ==
    IF cursor_position = None
    THEN {"draw", "hide_cursor"}
    ELSE {"draw", "show_cursor", "set_cursor_position"}

CallsMade == {draw_call.calls[i] : i \in DOMAIN draw_call.calls}

\* C24: a failing call of a draw is the last call that draw makes and its
\* error is the one returned; a draw without a failing call returns no error;
\* and the buffers are swapped only after the draw commands and the cursor
\* update were emitted without a failure.
C24_IoErrorAbortsFrame ==
    /\ draw_call.failed # {} =>
           /\ draw_call.failed = {draw_call.calls[Len(draw_call.calls)]}
           /\ draw_call.err = Some(draw_call.calls[Len(draw_call.calls)])
    /\ draw_call.failed = {} => draw_call.err = None
    /\ draw_call.swapped =>
           /\ EmittingCalls(draw_call.cursor_position) \subseteq CallsMade
           /\ EmittingCalls(draw_call.cursor_position) \cap draw_call.failed = {}

\* a draw whose draw commands could not be written: stopped there, not swapped
C24_Witness ==
    /\ draw_call.err = Some("draw")
    /\ draw_call.calls = <<"size", "render", "draw">>
    /\ ~draw_call.swapped
    /\ terminal.buffers[terminal.current] # EmptyBuffer(BufCells)

-----------------------------------------------------------------------------
(* Properties of the screen, checked under SpecScreen                       *)

\* what the screen shows where the frame has `buffer`: each cell's symbol,
\* colour and modifiers, and the right half of a wide glyph after its left
Shows(screen, buffer) ==
    \A x \in DOMAIN buffer :
        /\ (x = 0 \/ SymbolWidth(buffer[x - 1].symbol) < 2) => screen[x] = buffer[x]
        /\ (x > 0 /\ SymbolWidth(buffer[x - 1].symbol) = 2) =>
               screen[x] = [buffer[x - 1] EXCEPT !.symbol = ">"]

DrawSucceeded == draw_call.calls # <<>> /\ draw_call.err = None

\* the frame a successful draw rendered: the buffer it swapped out
RenderedFrame == terminal.buffers[1 - terminal.current]

\* C34: after every draw that returns successfully, each cell of the screen
\* shows the symbol, colour and modifiers of the corresponding cell of the
\* frame just rendered, also when an earlier draw was aborted by an IO error.
C34_ScreenShowsFrame == DrawSucceeded => Shows(terminal.backend.screen, RenderedFrame)

-----------------------------------------------------------------------------
(* Properties of the modifier delta, checked under SpecModifier             *)

\* C37: for every pair of modifier sets (from, to), a terminal whose active
\* attributes were `from` has the attributes `to` after the modifier delta
\* was emitted, the normal-intensity command clearing both bold and dim.
C37_ModifierDeltaReachesTo ==
    draw_call.queued => terminal.backend.modifier = draw_call.to

-----------------------------------------------------------------------------
(* Properties of clipboard reconstruction, checked under SpecCopy           *)

CopyStartPoint == order_points(copy_in.start, copy_in.end).start

CopyEndPoint == order_points(copy_in.start, copy_in.end).end

\* the lines of the selection, by index
CopiedLines ==
    {k \in 0..(Len(copy_in.lines) - 1) :
         CopyStartPoint.line_index <= k /\ k <= CopyEndPoint.line_index}

IsCode(k) == copy_in.lines[k + 1].code

\* the fences a selection calls for: one that opens before each line that
\* enters a code run, one that closes before each line that leaves one, and
\* one that closes at the end when the last line is in a code run
RECURSIVE FencesCalledFor(_)
FencesCalledFor(k) ==
    IF k \notin CopiedLines
    THEN IF k - 1 \in CopiedLines /\ IsCode(k - 1)
         THEN <<FenceAt("close", "end")>>
         ELSE <<>>
    ELSE (IF IsCode(k) /\ (k - 1 \notin CopiedLines \/ ~IsCode(k - 1))
          THEN <<FenceAt("open", k)>>
          ELSE IF ~IsCode(k) /\ k - 1 \in CopiedLines /\ IsCode(k - 1)
               THEN <<FenceAt("close", k)>>
               ELSE <<>>)
         \o FencesCalledFor(k + 1)

\* the lines of a text, split at "\n"
RECURSIVE SplitLines(_, _)
SplitLines(t, acc) ==
    IF t = <<>>
    THEN <<acc>>
    ELSE IF Head(t) = "\n"
         THEN <<acc>> \o SplitLines(Tail(t), <<>>)
         ELSE SplitLines(Tail(t), Append(acc, Head(t)))

FenceLines(t) == {i \in DOMAIN SplitLines(t, <<>>) : SplitLines(t, <<>>)[i] = Fence}

\* C25: in every text returned the fences are balanced: the fences pushed are
\* those the selection calls for, they open and close in turn and end with a
\* closing one, and they are the lines of the text that are a fence.
C25_FencesBalanced ==
    (copy_out.done /\ copy_out.text # None) =>
        /\ copy_out.fences = FencesCalledFor(CopyStartPoint.line_index)
        /\ \A i \in DOMAIN copy_out.fences :
               copy_out.fences[i].kind = IF i % 2 = 1 THEN "open" ELSE "close"
        /\ Len(copy_out.fences) % 2 = 0
        /\ Cardinality(FenceLines(copy_out.text[1])) = Len(copy_out.fences)

\* a selection that leaves a code run, enters another and ends in it
C25_Witness ==
    /\ copy_out.done
    /\ copy_out.text # None
    /\ Len(copy_out.fences) = 4
    /\ copy_out.fences[4] = FenceAt("close", "end")

-----------------------------------------------------------------------------
(* Properties of the ordering of selection endpoints, checked under         *)
(* SpecHighlight                                                            *)

\* C30: for the two points a and b of a selection, ordered_endpoints (used to
\* paint it) and order_points (used to copy it) each give (start, end) with
\* {start, end} = {a, b} and start <= end in the lexicographic order of
\* (line_index, column).
C30_EndpointsOrdered ==
    (frame # None /\ selection.anchor # None /\ selection.head # None) =>
        \A o \in {ordered_endpoints(selection.anchor[1], selection.head[1]),
                  order_points(selection.anchor[1], selection.head[1])} :
            /\ {o.start, o.end} = {selection.anchor[1], selection.head[1]}
            /\ \/ o.start.line_index < o.end.line_index
               \/ /\ o.start.line_index = o.end.line_index
                  /\ o.start.column <= o.end.column

\* a painted selection dragged backwards on one line: the head comes first
C30_Witness ==
    /\ frame # None
    /\ selection.anchor # None
    /\ selection.head # None
    /\ selection.anchor[1].line_index = selection.head[1].line_index
    /\ selection.head[1].column < selection.anchor[1].column
    /\ ordered_endpoints(selection.anchor[1], selection.head[1]).start = selection.head[1]
    /\ frame[1].reversed # {}

-----------------------------------------------------------------------------
(* Properties of the mouse handler, checked under SpecMouse                 *)

\* C29: a mouse event at a position outside the transcript area leaves the
\* selection as it was, unless it is a left-button press or release, which
\* leaves no selection; with the transcript on the screen such a press or
\* release does clear a selection that was there.
C29_OutsideEventsLeaveSelection ==
    (sel_call.op \in MouseEventKinds /\ sel_call.outside) =>
        /\ \/ selection = sel_call.before
           \/ sel_call.op \in {"Down(Left)", "Up(Left)"} /\ selection = DefaultSelection
        /\ (sel_call.shown /\ sel_call.op \in {"Down(Left)", "Up(Left)"}) =>
               selection = DefaultSelection

\* a left-button press below the transcript that cleared a selection
C29_Witness ==
    /\ sel_call.op = "Down(Left)"
    /\ sel_call.outside
    /\ sel_call.shown
    /\ sel_call.before.anchor # None
    /\ sel_call.before.head # None
    /\ selection = DefaultSelection

-----------------------------------------------------------------------------
(* Properties of skill loading, checked under SpecSkillsLoad                *)

\* the names of the SKILL.md files of the scope's root, as load_skills
\* searches it for the working directory
NamesInScope(disk, cwd, scope) ==
    IF scope = "Repo"
    THEN (IF disk.repo[cwd] = None THEN <<>> ELSE disk.repo[cwd][1])
    ELSE IF scope = "User" THEN disk.user
    ELSE IF scope = "System" THEN disk.system
    ELSE IF disk.unix THEN disk.admin ELSE <<>>

ScopesDefining(disk, cwd, n) ==
    {scope \in {"Repo", "User", "System", "Admin"} :
         \E k \in 1..Len(NamesInScope(disk, cwd, scope)) :
             NamesInScope(disk, cwd, scope)[k] = n}

Outranks(a, b) ==
    \/ a = "Repo" /\ b \in {"User", "System", "Admin"}
    \/ a = "User" /\ b \in {"System", "Admin"}
    \/ a = "System" /\ b = "Admin"

\* C26: the loaded skills hold one skill for each name some searched scope
\* defines and none for the other names; that skill is from the scope that
\* outranks the other scopes defining the name (Repo over User over System
\* over Admin), and it is the first file of that name the scope's root has.
C26_HighestScopeWins ==
    sk_call.op = "load_skills" =>
        LET skills == sk_call.outcome.skills
        IN  \A n \in SkillNames :
                LET defining == ScopesDefining(sk_disk, sk_call.cwd, n)
                    got == {k \in 1..Len(skills) : skills[k].name = n}
                IN  IF defining = {}
                    THEN got = {}
                    ELSE /\ Cardinality(got) = 1
                         /\ \A k \in got :
                                /\ skills[k].scope \in defining
                                /\ \A s \in defining \ {skills[k].scope} :
                                       Outranks(skills[k].scope, s)
                                /\ LET names == NamesInScope(sk_disk, sk_call.cwd,
                                                             skills[k].scope)
                                       file == skills[k].path[3]
                                   IN  /\ names[file] = n
                                       /\ \A j \in 1..(file - 1) : names[j] # n

\* a load that found one name in the four scopes and another in the user's
\* and the administrator's only
C26_Witness ==
    /\ sk_call.op = "load_skills"
    /\ \E n, m \in SkillNames :
           /\ ScopesDefining(sk_disk, sk_call.cwd, n) = {"Repo", "User", "System", "Admin"}
           /\ ScopesDefining(sk_disk, sk_call.cwd, m) = {"User", "Admin"}
           /\ \E k \in 1..Len(sk_call.outcome.skills) :
                  /\ sk_call.outcome.skills[k].name = m
                  /\ sk_call.outcome.skills[k].scope = "User"

-----------------------------------------------------------------------------
(* Properties of the walk order, checked under SpecSkillsWalk               *)

\* C40: for a fixed file tree the skill list returned is the same (names,
\* paths and order) for every order in which the directory entries are
\* enumerated, also with two skills of one name under one root.
C40_OutcomeIndependentOfWalk ==
    sk_call.op = "load_skills" =>
        \A w \in Walks :
            load_skills_from_roots(
                [sk_disk EXCEPT !.walk = w],
                skill_roots_for_cwd(sk_disk, sk_call.cwd)) = sk_call.outcome

-----------------------------------------------------------------------------
(* Properties of the skills manager, checked under SpecSkillsManager        *)

\* C27: a call without force_reload for a working directory that has a
\* cached outcome returns that outcome, loads nothing and has nothing to
\* insert.
C27_CachedOutcomeReturned ==
    (/\ sk_call.op = "skills_for_cwd"
     /\ ~sk_call.force_reload
     /\ sk_call.cached # None) =>
        /\ ~sk_call.loaded
        /\ sk_call.returned = sk_call.cached
        /\ sk_threads[sk_call.thread] = None

\* such a call that returned an outcome the disk no longer gives
C27_Witness ==
    /\ sk_call.op = "skills_for_cwd"
    /\ ~sk_call.force_reload
    /\ sk_call.cached # None
    /\ sk_call.returned = cache_by_cwd[sk_call.cwd]
    /\ sk_call.returned #
           Some(load_skills_from_roots(sk_disk, skill_roots_for_cwd(sk_disk, sk_call.cwd)))

\* C35: once a force_reload call has returned, the cache entry of its cwd is
\* never replaced by an outcome that was loaded before that call's load, for
\* every interleaving of the calls (an insert that leaves the entry as it
\* was replaces nothing).
C35_ReloadNotOverwrittenByStale ==
    (sk_call.op = "insert" /\ sk_call.stale) => sk_call.returned = sk_call.replaced

-----------------------------------------------------------------------------
(* Properties of the system skills, checked under SpecSystemSkills          *)

InstalledTreeComplete ==
    /\ sk_system.disk.root = "dir"
    /\ \A f \in EmbeddedFiles : sk_system.disk.files[f] = "written"

\* C38: whatever step of an installation fails or is interrupted, the marker
\* file holds the current fingerprint only if every embedded file has been
\* written, so that a start-up skips the installation only over a complete
\* tree.
C38_MarkerOnlyOverCompleteTree ==
    /\ sk_system.disk.marker = "current" => InstalledTreeComplete
    /\ (sk_system.run.op = "install" /\ sk_system.run.skipped) => InstalledTreeComplete

-----------------------------------------------------------------------------
(* Properties of skill injection, checked under SpecSkillInjection          *)

Mentions(inputs, n) ==
    {i \in 1..Len(inputs) : inputs[i].kind = "Skill" /\ inputs[i].name = n}

FirstMention(inputs, n) ==
    CHOOSE i \in Mentions(inputs, n) : \A j \in Mentions(inputs, n) : i <= j

LoadedSkills(skills) ==
    IF skills = None THEN {} ELSE {skills[1].skills[k] : k \in 1..Len(skills[1].skills)}

\* C28: the skills whose file the injection reads have different names; each
\* is the loaded skill with the name and the path of the first mention of
\* its name; they are in the order of those first mentions; and every name
\* whose first mention gives the name and path of a loaded skill is read.
C28_FirstMentionAttempted ==
    sk_inj.done =>
        LET inputs == sk_inj.inputs
            attempts == sk_inj.out.attempts
        IN  /\ \A k, l \in 1..Len(attempts) :
                   k < l =>
                       /\ attempts[k].name # attempts[l].name
                       /\ FirstMention(inputs, attempts[k].name)
                              < FirstMention(inputs, attempts[l].name)
            /\ \A k \in 1..Len(attempts) :
                   /\ Mentions(inputs, attempts[k].name) # {}
                   /\ attempts[k] \in LoadedSkills(sk_inj.skills)
                   /\ inputs[FirstMention(inputs, attempts[k].name)].path = attempts[k].path
            /\ \A n \in SkillNames :
                   (/\ Mentions(inputs, n) # {}
                    /\ \E s \in LoadedSkills(sk_inj.skills) :
                           /\ s.name = n
                           /\ s.path = inputs[FirstMention(inputs, n)].path) =>
                       \E k \in 1..Len(attempts) : attempts[k].name = n
            /\ Len(sk_inj.out.items) + Len(sk_inj.out.warnings) = Len(attempts)

\* an injection for a name mentioned first with a path no loaded skill has
\* and then with the path of the loaded skill, after which another skill is
\* mentioned and read
C28_Witness ==
    /\ sk_inj.done
    /\ Len(sk_inj.out.attempts) = 1
    /\ \E n \in SkillNames :
           /\ Cardinality(Mentions(sk_inj.inputs, n)) = 2
           /\ \A k \in 1..Len(sk_inj.out.attempts) : sk_inj.out.attempts[k].name # n
           /\ \E i \in Mentions(sk_inj.inputs, n), s \in LoadedSkills(sk_inj.skills) :
                  /\ s.name = n
                  /\ s.path = sk_inj.inputs[i].path

=============================================================================
